---- MODULE Spec2Model ----
(***************************************************************************)
(* State-machine model of the tplc command line client: the credential     *)
(* store (auth/keychain.rs), the session loader and refresher              *)
(* (auth/credentials.rs), the cloud client (api/client.rs), device         *)
(* discovery and name resolution (resolve.rs) and the device handle's      *)
(* passthrough command (models/device.rs, api/device_client.rs).           *)
(*                                                                         *)
(* Rust strings are sequences of one-character strings, so that            *)
(* to_lowercase, contains and starts_with are computed, not assumed.       *)
(* Option<T> is the empty set (None) or a singleton (Some(v)).             *)
(* A session token issued by the cloud is the sequence <<n>>, n its issue  *)
(* number; the empty string is <<>>.                                       *)
(***************************************************************************)
EXTENDS Integers, Sequences, FiniteSets, TLC

----------------------------------------------------------------------------
(* Option<T> and strings                                                   *)

None == {}

Some(v) == {v}

is_some(o) == o # {}

unwrap(o) == CHOOSE v \in o : TRUE

unwrap_or(o, d) == IF o = {} THEN d ELSE unwrap(o)

EmptyStr == << >>

is_empty(s) == Len(s) = 0

to_lowercase_char(c) ==
    CASE c = "A" -> "a"
      [] c = "B" -> "b"
      [] c = "U" -> "u"
      [] OTHER -> c

to_lowercase(s) == [i \in 1..Len(s) |-> to_lowercase_char(s[i])]

contains(s, t) == \E i \in 0..(Len(s) - Len(t)) : SubSeq(s, i + 1, i + Len(t)) = t

starts_with(s, p) == Len(p) <= Len(s) /\ SubSeq(s, 1, Len(p)) = p

----------------------------------------------------------------------------
(* Errors (error.rs)                                                       *)

AppError(kind) == [kind |-> kind, msg |-> EmptyStr, names |-> << >>]

\* Auth, TokenExpired and Api carry a message and, where the cloud gave one, its
\* business code.
Coded(kind, message, error_code) ==
    [kind |-> kind, msg |-> message, names |-> << >>, error_code |-> error_code]

DeviceNotFound(msg, names) == [kind |-> "DeviceNotFound", msg |-> msg, names |-> names]

Ok(v) == [ok |-> TRUE, val |-> v]

Err(e) == [ok |-> FALSE, err |-> e]

\* An exit_code that takes an expired token for a generic failure.
exit_code_expiry_generic(e) ==
    CASE e.kind \in {"Auth", "MfaRequired", "NotAuthenticated"} -> 2
      [] e.kind = "DeviceNotFound" -> 3
      [] e.kind = "DeviceOffline" -> 4
      [] OTHER -> 1

\* AppError::exit_code
exit_code(e) ==
    CASE e.kind \in {"Auth", "MfaRequired", "TokenExpired", "NotAuthenticated"} -> 2
      [] e.kind = "DeviceNotFound" -> 3
      [] e.kind = "DeviceOffline" -> 4
      [] OTHER -> 1

\* run, from the result of dispatch on: the exit code of the process.
run(result) == IF result.ok THEN 0 ELSE exit_code(result.err)

----------------------------------------------------------------------------
(* Ecosystems (api/cloud_type.rs)                                          *)

Kasa == "Kasa"

Tapo == "Tapo"

CloudType == {Kasa, Tapo}

----------------------------------------------------------------------------
(* Credential store (auth/keychain.rs): one value per key, absent = None.  *)

Keys == {"token", "refresh_token", "username", "regional_url", "term_id",
         "tapo_token", "tapo_refresh_token", "tapo_regional_url"}

EmptyStore == [k \in Keys |-> None]

\* The set_value calls store_tokens makes for the token set t, in order.
\* A field that is None makes no call.
store_writes(t) ==
    << <<"token", t.token>> >>
    \o (IF is_some(t.refresh_token)
        THEN << <<"refresh_token", unwrap(t.refresh_token)>> >> ELSE << >>)
    \o << <<"username", t.username>>,
          <<"regional_url", t.regional_url>>,
          <<"term_id", t.term_id>> >>
    \o (IF is_some(t.tapo_token)
        THEN << <<"tapo_token", unwrap(t.tapo_token)>> >> ELSE << >>)
    \o (IF is_some(t.tapo_refresh_token)
        THEN << <<"tapo_refresh_token", unwrap(t.tapo_refresh_token)>> >> ELSE << >>)
    \o (IF is_some(t.tapo_regional_url)
        THEN << <<"tapo_regional_url", unwrap(t.tapo_regional_url)>> >> ELSE << >>)

RECURSIVE set_values(_, _, _)
\* The store after the first n writes of ws have been made.
set_values(st, ws, n) ==
    IF n = 0 THEN st
    ELSE [set_values(st, ws, n - 1) EXCEPT ![ws[n][1]] = Some(ws[n][2])]

\* store_tokens(t) on store st when its fail-th set_value call fails (none
\* fails when fail is 0 or more calls than it makes): every call is a separate
\* write, and the failing one returns the Keychain error with the earlier
\* writes already made.
store_tokens(st, t, fail) ==
    LET ws == store_writes(t)
    IN  IF fail = 0 \/ fail > Len(ws)
        THEN [store |-> set_values(st, ws, Len(ws)), result |-> Ok("unit")]
        ELSE [store |-> set_values(st, ws, fail - 1), result |-> Err(AppError("Keychain"))]

get_tokens(st) ==
    IF st["token"] = None THEN None
    ELSE Some([token              |-> unwrap(st["token"]),
               refresh_token      |-> st["refresh_token"],
               username           |-> unwrap_or(st["username"], EmptyStr),
               regional_url       |-> unwrap_or(st["regional_url"], EmptyStr),
               term_id            |-> unwrap_or(st["term_id"], EmptyStr),
               tapo_token         |-> st["tapo_token"],
               tapo_refresh_token |-> st["tapo_refresh_token"],
               tapo_regional_url  |-> st["tapo_regional_url"]])

clear_tokens(st) == [k \in Keys |-> None]

----------------------------------------------------------------------------
(* Session loader and refresher (auth/credentials.rs)                      *)

to_token_set(a) ==
    [token              |-> a.token,
     refresh_token      |-> a.refresh_token,
     username           |-> a.username,
     regional_url       |-> a.regional_url,
     term_id            |-> a.term_id,
     tapo_token         |-> a.tapo_token,
     tapo_refresh_token |-> a.tapo_refresh_token,
     tapo_regional_url  |-> a.tapo_regional_url]

has_tapo(a) == is_some(a.tapo_token) /\ ~is_empty(unwrap(a.tapo_token))

\* A loader that accepts any stored token, an empty one included.
get_auth_context_any_token(st) ==
    LET tokens == get_tokens(st)
    IN  IF tokens = None THEN Err(AppError("NotAuthenticated")) ELSE Ok(unwrap(tokens))

get_auth_context(st) ==
    LET tokens == get_tokens(st)
    IN  IF tokens = None THEN Err(AppError("NotAuthenticated"))
        ELSE IF is_empty(unwrap(tokens).token) THEN Err(AppError("NotAuthenticated"))
        ELSE Ok(unwrap(tokens))

----------------------------------------------------------------------------
(* Device kinds (models/device_type.rs)                                    *)

MODEL_MAP ==
    << << <<"K","L","4","2","0","L","5">>, "KL420L5" >>,
       << <<"K","L","4","3","0">>, "KL430" >>,
       << <<"H","S","1","0","0">>, "HS100" >>,
       << <<"H","S","1","0","3">>, "HS103" >>,
       << <<"H","S","1","0","5">>, "HS105" >>,
       << <<"H","S","1","1","0">>, "HS110" >>,
       << <<"H","S","2","0","0">>, "HS200" >>,
       << <<"H","S","3","0","0">>, "HS300" >>,
       << <<"K","P","1","1","5">>, "KP115" >>,
       << <<"K","P","1","2","5">>, "KP125" >>,
       << <<"K","P","2","0","0">>, "KP200" >>,
       << <<"K","P","3","0","3">>, "KP303" >>,
       << <<"K","P","4","0","0">>, "KP400" >>,
       << <<"E","P","4","0">>, "EP40" >> >>

\* The variants of enum DeviceType.
DeviceTypes ==
    {"HS100", "HS103", "HS105", "HS110", "HS200", "HS300", "HS300Child", "KP115", "KP125",
     "KP200", "KP200Child", "KP303", "KP303Child", "KP400", "KP400Child", "KL420L5", "KL430",
     "EP40", "EP40Child", "Unknown"}

\* A from_model that wants the model string to be a table prefix itself.
from_model_exact(model) ==
    IF \E i \in 1 .. Len(MODEL_MAP) : MODEL_MAP[i][1] = model
    THEN MODEL_MAP[CHOOSE i \in 1 .. Len(MODEL_MAP) : MODEL_MAP[i][1] = model][2]
    ELSE "Unknown"

RECURSIVE from_model_loop(_, _)
from_model_loop(model, i) ==
    IF i > Len(MODEL_MAP) THEN "Unknown"
    ELSE IF starts_with(model, MODEL_MAP[i][1]) THEN MODEL_MAP[i][2]
    ELSE from_model_loop(model, i + 1)

from_model(model) == from_model_loop(model, 1)

child_type(dtype) ==
    CASE dtype = "HS300" -> "HS300Child"
      [] dtype = "KP200" -> "KP200Child"
      [] dtype = "KP303" -> "KP303Child"
      [] dtype = "KP400" -> "KP400Child"
      [] dtype = "EP40"  -> "EP40Child"
      [] OTHER -> "Unknown"

\* A has_children that holds of every known kind.
has_children_of_known(dtype) == dtype # "Unknown"

has_children(dtype) == dtype \in {"HS300", "KP200", "KP303", "KP400", "EP40"}

has_emeter(dtype) == dtype \in {"HS110", "KP115", "KP125", "HS300Child"}

is_light(dtype) == dtype \in {"KL420L5", "KL430"}

is_child(dtype) ==
    dtype \in {"HS300Child", "KP200Child", "KP303Child", "KP400Child", "EP40Child"}

----------------------------------------------------------------------------
(* Device records (models/device_info.rs)                                  *)

Unknown == <<"U","n","k","n","o","w","n">>

\* A deviceList element v: v.valid says whether it deserializes as a DeviceInfo.
from_json(v) == IF v.valid THEN Some(v) ELSE None

alias_or_name(info) ==
    IF is_some(info.alias) THEN unwrap(info.alias)
    ELSE IF is_some(info.device_name) THEN unwrap(info.device_name)
    ELSE Unknown

model(info) == unwrap_or(info.device_model, Unknown)

id(info) == unwrap_or(info.device_id, EmptyStr)

----------------------------------------------------------------------------
(* HTTP exchange (api/client.rs, api/device_client.rs, api/response.rs).   *)
(* A reply is [sent, status_ok, error_code, result, msg, status, body]:     *)
(* sent is FALSE when the request or the decoding of its body fails in      *)
(* transport, status_ok is the HTTP status being a success, error_code,     *)
(* result and msg are the fields of the ApiResponse body, status and body   *)
(* the HTTP status and the raw body text.                                   *)

\* The business codes of api/errors.rs, a file that is not among the sources:
\* the code only compares error_code with them, so what matters here is that
\* they are distinct and non-zero.
ERR_TOKEN_EXPIRED == -20651

ERR_REFRESH_TOKEN_EXPIRED == -20655

successful(r) == r.error_code = 0

\* request_post_v1 and request_post_v2 treat the reply alike.
request_post(reply) ==
    IF ~reply.sent THEN Err(AppError("Http"))
    ELSE IF reply.status_ok THEN Ok(reply)
    ELSE Err(AppError("Api"))

get_device_info_list(reply) ==
    LET r == request_post(reply)
    IN  IF ~r.ok THEN r
        ELSE IF successful(r.val)
             THEN IF is_some(r.val.result) /\ is_some(unwrap(r.val.result).deviceList)
                  THEN Ok(unwrap(unwrap(r.val.result).deviceList))
                  ELSE Ok(<< >>)
        ELSE IF r.val.error_code = ERR_TOKEN_EXPIRED THEN Err(AppError("TokenExpired"))
        ELSE Ok(<< >>)

\* TPLinkApi::refresh_token against host; a LoginResult on success.
refresh_token(reply, host) ==
    LET r == request_post(reply)
    IN  IF ~r.ok THEN r
        ELSE IF successful(r.val)
             THEN LET result == r.val.result
                  IN  Ok([token         |-> IF is_some(result)
                                            THEN unwrap_or(unwrap(result).token, EmptyStr)
                                            ELSE EmptyStr,
                          refresh_token |-> IF is_some(result)
                                            THEN unwrap(result).refreshToken
                                            ELSE None,
                          regional_url  |-> host])
        ELSE IF r.val.error_code = ERR_REFRESH_TOKEN_EXPIRED
             THEN Err(AppError("TokenExpired"))
        ELSE Err(AppError("Api"))

\* format!("{}: {}", status, body)
status_and_body(reply) == <<ToString(reply.status), ": ">> \o reply.body

\* format!("Device error code {}", error_code)
device_error_code(error_code) == <<"Device error code ", ToString(error_code)>>

\* DeviceClient::passthrough: the decoded responseData, if any.
\* A passthrough that looks at the business code before the HTTP status.
client_passthrough_code_first(reply) ==
    IF ~reply.sent THEN Err(AppError("Http"))
    ELSE IF reply.error_code = ERR_TOKEN_EXPIRED
         THEN Err(Coded("TokenExpired", <<"Auth token expired">>, Some(reply.error_code)))
    ELSE IF ~reply.status_ok THEN Err(Coded("Api", status_and_body(reply), None))
    ELSE IF ~successful(reply)
         THEN Err(Coded("Api", unwrap_or(reply.msg, device_error_code(reply.error_code)),
                        Some(reply.error_code)))
    ELSE IF is_some(reply.result) /\ is_some(unwrap(reply.result).responseData)
         THEN LET data == unwrap(unwrap(reply.result).responseData)
              IN  IF data.decodes THEN Ok(Some(data)) ELSE Err(AppError("Json"))
    ELSE Ok(None)

client_passthrough(reply) ==
    IF ~reply.sent THEN Err(AppError("Http"))
    ELSE IF ~reply.status_ok THEN Err(Coded("Api", status_and_body(reply), None))
    ELSE IF reply.error_code = ERR_TOKEN_EXPIRED
         THEN Err(Coded("TokenExpired", <<"Auth token expired">>, Some(reply.error_code)))
    ELSE IF ~successful(reply)
         THEN Err(Coded("Api", unwrap_or(reply.msg, device_error_code(reply.error_code)),
                        Some(reply.error_code)))
    ELSE IF is_some(reply.result) /\ is_some(unwrap(reply.result).responseData)
         THEN LET data == unwrap(unwrap(reply.result).responseData)
              IN  IF data.decodes THEN Ok(Some(data)) ELSE Err(AppError("Json"))
    ELSE Ok(None)

\* Device::get_children of a composite parent: the children array of the
\* get_sysinfo reply, an empty list when the reply has none.
get_children(reply) ==
    LET r == client_passthrough(reply)
    IN  IF ~r.ok THEN r
        ELSE IF is_some(r.val) /\ unwrap(r.val).found /\ is_some(unwrap(r.val).children)
             THEN Ok(unwrap(unwrap(r.val).children))
        ELSE Ok(<< >>)

----------------------------------------------------------------------------
(* Request signing (api/signing.rs).  MD5, HMAC-SHA1 and the encodings are  *)
(* kept as terms over their arguments (no two arguments give one digest);  *)
(* a text built by format! from fixed separators is the record of its      *)
(* parts.  The nonce is the value Uuid::new_v4 draws, an argument here.     *)

SIGNING_TIMESTAMP == <<"9999999999">>

access_key(c) ==
    IF c = Kasa THEN <<"e37525375f8845999bcc56d5e6faa76d">>
    ELSE <<"4d11b6b9d5ea4d19a829adbb9714b057">>

secret_key(c) ==
    IF c = Kasa THEN <<"314bc6700b3140ca80bc655e527cb062">>
    ELSE <<"6ed7d97f3e73467f8a5bab90b577ba4c">>

\* STANDARD.encode(Md5(body))
compute_content_md5(body) == [base64_md5 |-> body]

\* A signature that leaves the nonce out of the signing string and of the
\* header.
compute_signature_without_nonce(body_json, url_path, cloud_type, nonce) ==
    LET content_md5 == compute_content_md5(body_json)
        sig_string == [content_md5 |-> content_md5, timestamp |-> SIGNING_TIMESTAMP,
                       nonce |-> EmptyStr, url_path |-> url_path]
        signature == [hex_hmac_sha1 |-> sig_string, key |-> secret_key(cloud_type)]
    IN  << content_md5,
           [Timestamp |-> SIGNING_TIMESTAMP, Nonce |-> EmptyStr,
            AccessKey |-> access_key(cloud_type), Signature |-> signature] >>

\* compute_signature, nonce being the UUID drawn in this call:
\* (content_md5, authorization).
compute_signature(body_json, url_path, cloud_type, nonce) ==
    LET content_md5 == compute_content_md5(body_json)
        sig_string == [content_md5 |-> content_md5, timestamp |-> SIGNING_TIMESTAMP,
                       nonce |-> nonce, url_path |-> url_path]
        signature == [hex_hmac_sha1 |-> sig_string, key |-> secret_key(cloud_type)]
    IN  << content_md5,
           [Timestamp |-> SIGNING_TIMESTAMP, Nonce |-> nonce,
            AccessKey |-> access_key(cloud_type), Signature |-> signature] >>

get_signing_headers(body_json, url_path, cloud_type, nonce) ==
    LET s == compute_signature(body_json, url_path, cloud_type, nonce)
    IN  [content_md5 |-> s[1], x_authorization |-> s[2]]

----------------------------------------------------------------------------
(* Discovery (resolve.rs).  A deviceList element is [json, sysinfo]: json   *)
(* is the device record the cloud lists, sysinfo the reply that device     *)
(* gives to the get_sysinfo passthrough made to enumerate its sub-units.   *)

\* The (token, regional_url) a discovery or a handle of ecosystem c uses.
session_for(auth, c) ==
    IF c = Kasa THEN Ok([token |-> auth.token, url |-> auth.regional_url])
    ELSE IF auth.tapo_token = None THEN Err(AppError("NotAuthenticated"))
    ELSE IF auth.tapo_regional_url = None THEN Err(AppError("NotAuthenticated"))
    ELSE Ok([token |-> unwrap(auth.tapo_token), url |-> unwrap(auth.tapo_regional_url)])

\* The token read back from the session after a refresh.
refreshed_token(auth, c) ==
    IF c = Kasa THEN Ok(auth.token)
    ELSE IF auth.tapo_token = None THEN Err(AppError("NotAuthenticated"))
    ELSE Ok(unwrap(auth.tapo_token))

\* A sub-unit alias that is kept even when empty.
child_alias_of_kept_empty(child) == Some(child.alias)

child_alias_of(child) == IF is_empty(child.alias) THEN None ELSE Some(child.alias)

Request(op, c, token) == [op |-> op, cloud |-> c, token |-> token]

\* fetch_devices_for_cloud, the loop over the device list: entries are
\* (info, kind, child alias).
RECURSIVE fetch_loop(_, _, _, _, _)
fetch_loop(device_list, i, c, token, acc) ==
    IF i > Len(device_list) THEN acc
    ELSE LET parsed == from_json(device_list[i].json)
         IN  IF parsed = None THEN fetch_loop(device_list, i + 1, c, token, acc)
             ELSE LET info     == [unwrap(parsed) EXCEPT !.cloud_type = Some(c)]
                      dtype    == from_model(model(info))
                      children == get_children(device_list[i].sysinfo)
                      parent   == [info |-> info, dtype |-> dtype, child_alias |-> None]
                      subs     == IF children.ok
                                  THEN [k \in 1..Len(children.val) |->
                                          [info        |-> info,
                                           dtype       |-> child_type(dtype),
                                           child_alias |-> child_alias_of(children.val[k])]]
                                  ELSE << >>
                  IN  IF has_children(dtype)
                      THEN fetch_loop(device_list, i + 1, c, token,
                             [devices |-> acc.devices \o <<parent>> \o subs,
                              reqs    |-> Append(acc.reqs, Request("get_sysinfo", c, token))])
                      ELSE fetch_loop(device_list, i + 1, c, token,
                             [acc EXCEPT !.devices = Append(@, parent)])

\* A collection loop that lists a composite device's sub-units before the
\* device itself (resolve.rs 306-335 push the parent first).
RECURSIVE collect_loop_children_first(_, _, _, _, _)
collect_loop_children_first(device_list, i, c, token, acc) ==
    IF i > Len(device_list) THEN acc
    ELSE LET parsed == from_json(device_list[i].json)
         IN  IF parsed = None
             THEN collect_loop_children_first(device_list, i + 1, c, token, acc)
             ELSE IF id(unwrap(parsed)) \in acc.seen_ids
                  THEN collect_loop_children_first(device_list, i + 1, c, token, acc)
             ELSE LET info     == [unwrap(parsed) EXCEPT !.cloud_type = Some(c)]
                      seen     == acc.seen_ids \cup {id(info)}
                      dtype    == from_model(model(info))
                      children == get_children(device_list[i].sysinfo)
                      parent   == [info |-> info, dtype |-> dtype,
                                   child_alias |-> None, child_id |-> None]
                      subs     == IF children.ok
                                  THEN [k \in 1..Len(children.val) |->
                                          [info        |-> info,
                                           dtype       |-> child_type(dtype),
                                           child_alias |-> child_alias_of(children.val[k]),
                                           child_id    |-> Some(children.val[k].id)]]
                                  ELSE << >>
                  IN  IF has_children(dtype)
                      THEN collect_loop_children_first(device_list, i + 1, c, token,
                             [devices  |-> acc.devices \o subs \o <<parent>>,
                              seen_ids |-> seen,
                              reqs     |-> Append(acc.reqs, Request("get_sysinfo", c, token))])
                      ELSE collect_loop_children_first(device_list, i + 1, c, token,
                             [acc EXCEPT !.devices = Append(@, parent), !.seen_ids = seen])

\* A collection loop that leaves out a composite device whose sub-units it
\* could not enumerate.
RECURSIVE collect_loop_dropping_parent(_, _, _, _, _)
collect_loop_dropping_parent(device_list, i, c, token, acc) ==
    IF i > Len(device_list) THEN acc
    ELSE LET parsed == from_json(device_list[i].json)
         IN  IF parsed = None
             THEN collect_loop_dropping_parent(device_list, i + 1, c, token, acc)
             ELSE IF id(unwrap(parsed)) \in acc.seen_ids
                  THEN collect_loop_dropping_parent(device_list, i + 1, c, token, acc)
             ELSE LET info     == [unwrap(parsed) EXCEPT !.cloud_type = Some(c)]
                      seen     == acc.seen_ids \cup {id(info)}
                      dtype    == from_model(model(info))
                      children == get_children(device_list[i].sysinfo)
                      parent   == [info |-> info, dtype |-> dtype,
                                   child_alias |-> None, child_id |-> None]
                      subs     == IF children.ok
                                  THEN [k \in 1..Len(children.val) |->
                                          [info        |-> info,
                                           dtype       |-> child_type(dtype),
                                           child_alias |-> child_alias_of(children.val[k]),
                                           child_id    |-> Some(children.val[k].id)]]
                                  ELSE << >>
                  IN  IF has_children(dtype)
                      THEN collect_loop_dropping_parent(device_list, i + 1, c, token,
                             [devices  |-> IF children.ok THEN acc.devices \o <<parent>> \o subs
                                           ELSE acc.devices,
                              seen_ids |-> seen,
                              reqs     |-> Append(acc.reqs, Request("get_sysinfo", c, token))])
                      ELSE collect_loop_dropping_parent(device_list, i + 1, c, token,
                             [acc EXCEPT !.devices = Append(@, parent), !.seen_ids = seen])

\* collect_devices_for_resolution, the loop over the device list: entries are
\* (info, kind, child alias, child id); a device id already seen is skipped.
RECURSIVE collect_loop(_, _, _, _, _)
collect_loop(device_list, i, c, token, acc) ==
    IF i > Len(device_list) THEN acc
    ELSE LET parsed == from_json(device_list[i].json)
         IN  IF parsed = None THEN collect_loop(device_list, i + 1, c, token, acc)
             ELSE IF id(unwrap(parsed)) \in acc.seen_ids
                  THEN collect_loop(device_list, i + 1, c, token, acc)
             ELSE LET info     == [unwrap(parsed) EXCEPT !.cloud_type = Some(c)]
                      seen     == acc.seen_ids \cup {id(info)}
                      dtype    == from_model(model(info))
                      children == get_children(device_list[i].sysinfo)
                      parent   == [info |-> info, dtype |-> dtype,
                                   child_alias |-> None, child_id |-> None]
                      subs     == IF children.ok
                                  THEN [k \in 1..Len(children.val) |->
                                          [info        |-> info,
                                           dtype       |-> child_type(dtype),
                                           child_alias |-> child_alias_of(children.val[k]),
                                           child_id    |-> Some(children.val[k].id)]]
                                  ELSE << >>
                  IN  IF has_children(dtype)
                      THEN collect_loop(device_list, i + 1, c, token,
                             [devices  |-> acc.devices \o <<parent>> \o subs,
                              seen_ids |-> seen,
                              reqs     |-> Append(acc.reqs, Request("get_sysinfo", c, token))])
                      ELSE collect_loop(device_list, i + 1, c, token,
                             [acc EXCEPT !.devices = Append(@, parent), !.seen_ids = seen])

\* A merge that keeps every secondary entry (no kasa_ids filter).
merge_tapo_keeping_all(devices, kasa_ids, tapo_devices) == devices \o tapo_devices

\* fetch_all_devices, the merge: a secondary entry whose id is among the
\* primary entries' ids is dropped.
merge_tapo(devices, kasa_ids, tapo_devices) ==
    devices \o SelectSeq(tapo_devices, LAMBDA d : id(d.info) \notin kasa_ids)

ids_of(devices) == {id(devices[i].info) : i \in 1..Len(devices)}

----------------------------------------------------------------------------
(* Name resolution (resolve.rs)                                            *)

effective_alias(e) ==
    IF is_some(e.child_alias) THEN unwrap(e.child_alias) ELSE alias_or_name(e.info)

\* The first entry a for loop over all_devices returns at, hits being the
\* positions whose entry satisfies the loop's condition.
\* A loop that keeps the last entry satisfying its condition.
first_match_keeping_last(all_devices, hits) ==
    IF hits = {} THEN None
    ELSE Some(all_devices[CHOOSE i \in hits : \A j \in hits : i >= j])

first_match(all_devices, hits) ==
    IF hits = {} THEN None
    ELSE Some(all_devices[CHOOSE i \in hits : \A j \in hits : i <= j])

exact_alias(e, name_or_id) == effective_alias(e) = name_or_id

exact_id(e, name_or_id) == id(e.info) = name_or_id

ci_alias(e, name_or_id) == to_lowercase(effective_alias(e)) = to_lowercase(name_or_id)

partial_alias(e, name_or_id) ==
    contains(to_lowercase(effective_alias(e)), to_lowercase(name_or_id))

\* Resolution with the id rule ahead of the exact-alias rule.
resolve_entry_id_first(all_devices, name_or_id) ==
    LET r1 == first_match(all_devices, {i \in 1..Len(all_devices) : exact_alias(all_devices[i], name_or_id)})
        r2 == first_match(all_devices, {i \in 1..Len(all_devices) : exact_id(all_devices[i], name_or_id)})
        r3 == first_match(all_devices, {i \in 1..Len(all_devices) : ci_alias(all_devices[i], name_or_id)})
        partial_matches == SelectSeq(all_devices, LAMBDA e : partial_alias(e, name_or_id))
    IN  IF r2 # None THEN Ok(unwrap(r2))
        ELSE IF r1 # None THEN Ok(unwrap(r1))
        ELSE IF r3 # None THEN Ok(unwrap(r3))
        ELSE IF Len(partial_matches) = 1 THEN Ok(partial_matches[1])
        ELSE IF Len(partial_matches) > 1
             THEN Err(DeviceNotFound(name_or_id,
                        [k \in 1..Len(partial_matches) |->
                            effective_alias(partial_matches[k])]))
        ELSE Err(DeviceNotFound(name_or_id, << >>))

\* Resolution without the case-insensitive rule: such a match is left to the
\* substring rule and its ambiguity check.
resolve_entry_without_ci(all_devices, name_or_id) ==
    LET r1 == first_match(all_devices, {i \in 1..Len(all_devices) : exact_alias(all_devices[i], name_or_id)})
        r2 == first_match(all_devices, {i \in 1..Len(all_devices) : exact_id(all_devices[i], name_or_id)})
        partial_matches == SelectSeq(all_devices, LAMBDA e : partial_alias(e, name_or_id))
    IN  IF r1 # None THEN Ok(unwrap(r1))
        ELSE IF r2 # None THEN Ok(unwrap(r2))
        ELSE IF Len(partial_matches) = 1 THEN Ok(partial_matches[1])
        ELSE IF Len(partial_matches) > 1
             THEN Err(DeviceNotFound(name_or_id,
                        [k \in 1..Len(partial_matches) |->
                            effective_alias(partial_matches[k])]))
        ELSE Err(DeviceNotFound(name_or_id, << >>))

\* Resolution that settles several substring matches by taking the first.
resolve_entry_first_partial(all_devices, name_or_id) ==
    LET r1 == first_match(all_devices, {i \in 1..Len(all_devices) : exact_alias(all_devices[i], name_or_id)})
        r2 == first_match(all_devices, {i \in 1..Len(all_devices) : exact_id(all_devices[i], name_or_id)})
        r3 == first_match(all_devices, {i \in 1..Len(all_devices) : ci_alias(all_devices[i], name_or_id)})
        partial_matches == SelectSeq(all_devices, LAMBDA e : partial_alias(e, name_or_id))
    IN  IF r1 # None THEN Ok(unwrap(r1))
        ELSE IF r2 # None THEN Ok(unwrap(r2))
        ELSE IF r3 # None THEN Ok(unwrap(r3))
        ELSE IF Len(partial_matches) >= 1 THEN Ok(partial_matches[1])
        ELSE Err(DeviceNotFound(name_or_id, << >>))

\* resolve_device, lines 185-241: the entry the four rules select.
resolve_entry(all_devices, name_or_id) ==
    LET r1 == first_match(all_devices, {i \in 1..Len(all_devices) : exact_alias(all_devices[i], name_or_id)})
        r2 == first_match(all_devices, {i \in 1..Len(all_devices) : exact_id(all_devices[i], name_or_id)})
        r3 == first_match(all_devices, {i \in 1..Len(all_devices) : ci_alias(all_devices[i], name_or_id)})
        partial_matches == SelectSeq(all_devices, LAMBDA e : partial_alias(e, name_or_id))
    IN  IF r1 # None THEN Ok(unwrap(r1))
        ELSE IF r2 # None THEN Ok(unwrap(r2))
        ELSE IF r3 # None THEN Ok(unwrap(r3))
        ELSE IF Len(partial_matches) = 1 THEN Ok(partial_matches[1])
        ELSE IF Len(partial_matches) > 1
             THEN Err(DeviceNotFound(name_or_id,
                        [k \in 1..Len(partial_matches) |->
                            effective_alias(partial_matches[k])]))
        ELSE Err(DeviceNotFound(name_or_id, << >>))

\* A build_device that takes every entry for one of the primary ecosystem.
build_device_as_primary(e, auth) ==
    LET c == Kasa
        s == session_for(auth, c)
    IN  IF ~s.ok THEN s
        ELSE Ok([device_id   |-> id(e.info),
                 info        |-> e.info,
                 device_type |-> e.dtype,
                 child_id    |-> e.child_id,
                 cloud_type  |-> c,
                 token       |-> s.val.token])

\* build_device: the handle for a catalog entry.
build_device(e, auth) ==
    LET c == unwrap_or(e.info.cloud_type, Kasa)
        s == session_for(auth, c)
    IN  IF ~s.ok THEN s
        ELSE Ok([device_id   |-> id(e.info),
                 info        |-> e.info,
                 device_type |-> e.dtype,
                 child_id    |-> e.child_id,
                 cloud_type  |-> c,
                 token       |-> s.val.token])

resolve_device(all_devices, name_or_id, auth) ==
    LET r == resolve_entry(all_devices, name_or_id)
    IN  IF r.ok THEN build_device(r.val, auth) ELSE r

----------------------------------------------------------------------------
(* Device operations (models/device.rs) on a handle d, the cloud answering  *)
(* the passthrough call with reply.  The result is the requests sent and    *)
(* the operation's Result.                                                  *)

\* A navigation that takes the first element of the children array without
\* looking at its id.
device_response_first_child(d, r) ==
    IF ~r.ok THEN r
    ELSE IF r.val = None THEN Ok(None)
    ELSE LET sub_response == unwrap(r.val)
         IN  IF ~sub_response.found THEN Ok(None)
             ELSE IF /\ is_some(d.child_id)
                     /\ is_some(sub_response.children)
                     /\ Len(unwrap(sub_response.children)) > 0
                  THEN Ok(Some(unwrap(sub_response.children)[1]))
             ELSE Ok(Some(sub_response))

\* Device::passthrough after the call: the entry of the response for the
\* sub-request, for a sub-unit handle its own element of the children array
\* when the entry lists it; no value when the response has no such entry.
device_response(d, r) ==
    IF ~r.ok THEN r
    ELSE IF r.val = None THEN Ok(None)
    ELSE LET sub_response == unwrap(r.val)
         IN  IF ~sub_response.found THEN Ok(None)
             ELSE IF /\ is_some(d.child_id)
                     /\ is_some(sub_response.children)
                     /\ \E k \in 1 .. Len(unwrap(sub_response.children)) :
                           unwrap(sub_response.children)[k].id = unwrap(d.child_id)
                  THEN LET arr == unwrap(sub_response.children)
                           k == CHOOSE i \in 1 .. Len(arr) :
                                  /\ arr[i].id = unwrap(d.child_id)
                                  /\ \A j \in 1 .. i - 1 : arr[j].id # unwrap(d.child_id)
                       IN  Ok(Some(arr[k]))
             ELSE Ok(Some(sub_response))

\* An envelope that never names a sub-unit.
child_context_dropped(d) == None

\* Device::passthrough, the sibling key "context" of the envelope: present
\* for a handle bound to a sub-unit, with that sub-unit's id.
child_context(d) ==
    IF is_some(d.child_id) THEN Some([child_ids |-> << unwrap(d.child_id) >>]) ELSE None

\* DeviceClient::passthrough, the path it posts to.
passthrough_path(cloud_type) ==
    IF cloud_type = Kasa THEN <<"/">> ELSE <<"/api/v2/common/passthrough">>

\* DeviceClient::passthrough, the keys of the body: the method/params wrapper
\* around deviceId and requestData, or the two at top level.
body_keys(cloud_type) ==
    IF cloud_type = Kasa THEN [top |-> {"method", "params"}, params |-> {"deviceId", "requestData"}]
    ELSE [top |-> {"deviceId", "requestData"}, params |-> {}]

\* Device::passthrough: one DeviceClient::passthrough with the handle's
\* client.  A request is the client's ecosystem and token (a query parameter),
\* the device addressed, the envelope's context, the path, the body's keys and
\* the ecosystem handed to get_signing_headers.
device_passthrough(d, reply) ==
    [reqs   |-> << [op        |-> "passthrough",
                    cloud     |-> d.cloud_type,
                    token     |-> d.token,
                    device_id |-> d.device_id,
                    context   |-> child_context(d),
                    url_path  |-> passthrough_path(d.cloud_type),
                    body      |-> body_keys(d.cloud_type),
                    signed_as |-> d.cloud_type] >>,
     result |-> device_response(d, client_passthrough(reply))]

\* Device::passthrough of the sub-request sub_request_type with the integer
\* argument request (None for json!(null)).
device_request(d, sub_request_type, request, reply) ==
    [reqs   |-> << [op               |-> "passthrough",
                    cloud            |-> d.cloud_type,
                    token            |-> d.token,
                    device_id        |-> d.device_id,
                    sub_request_type |-> sub_request_type,
                    request          |-> request,
                    context          |-> child_context(d),
                    url_path         |-> passthrough_path(d.cloud_type),
                    body             |-> body_keys(d.cloud_type),
                    signed_as        |-> d.cloud_type] >>,
     result |-> device_passthrough(d, reply).result]

\* return Err(AppError::UnsupportedOperation(..)) ahead of the passthrough.
Unsupported == [reqs |-> << >>, result |-> Err(AppError("UnsupportedOperation"))]

power_on(d, reply) ==
    IF is_light(d.device_type)
    THEN device_request(d, "transition_light_state", Some(1), reply)
    ELSE device_request(d, "set_relay_state", Some(1), reply)

power_off(d, reply) ==
    IF is_light(d.device_type)
    THEN device_request(d, "transition_light_state", Some(0), reply)
    ELSE device_request(d, "set_relay_state", Some(0), reply)

get_sys_info(d, reply) == device_request(d, "get_sysinfo", None, reply)

\* .and_then(|v| v.as_i64()).map(|v| v == 1) of an optional JSON value.
is_one(v) ==
    IF v = None THEN None
    ELSE IF unwrap(v).as_i64 = None THEN None
    ELSE Some(unwrap(unwrap(v).as_i64) = 1)

\* Device::is_on: the power state the device reports, if it reports one.
is_on(d, reply) ==
    LET q == get_sys_info(d, reply)
        state ==
            IF q.result.val = None THEN None
            ELSE LET info == unwrap(q.result.val)
                 IN  IF is_light(d.device_type) /\ is_some(info.light_state)
                     THEN is_one(unwrap(info.light_state).on_off)
                     ELSE IF is_some(d.child_id) THEN is_one(info.state)
                     ELSE is_one(info.relay_state)
    IN  [reqs   |-> q.reqs,
         result |-> IF q.result.ok THEN Ok(state) ELSE q.result]

\* A toggle that takes an undetermined state for off.
toggle_guessing(d, reply, reply2) ==
    LET q == is_on(d, reply)
    IN  IF ~q.result.ok THEN q
        ELSE LET act == IF q.result.val = Some(TRUE) THEN power_off(d, reply2)
                        ELSE power_on(d, reply2)
             IN  [reqs |-> q.reqs \o act.reqs, result |-> act.result]

\* Device::toggle, the device answering the state query with reply and the
\* power command with reply2.
toggle(d, reply, reply2) ==
    LET q == is_on(d, reply)
    IN  IF ~q.result.ok THEN q
        ELSE IF q.result.val = None
             THEN [reqs   |-> q.reqs,
                   result |-> Err(Coded("Api", <<"Could not determine device power state">>,
                                        None))]
        ELSE LET act == IF q.result.val = Some(TRUE) THEN power_off(d, reply2)
                        ELSE power_on(d, reply2)
             IN  [reqs |-> q.reqs \o act.reqs, result |-> act.result]

get_power_usage_realtime(d, reply) ==
    IF ~has_emeter(d.device_type) THEN Unsupported ELSE device_passthrough(d, reply)

get_power_usage_day(d, reply) ==
    IF ~has_emeter(d.device_type) THEN Unsupported ELSE device_passthrough(d, reply)

get_power_usage_month(d, reply) ==
    IF ~has_emeter(d.device_type) THEN Unsupported ELSE device_passthrough(d, reply)

get_light_state(d, reply) ==
    IF ~is_light(d.device_type) THEN Unsupported ELSE device_passthrough(d, reply)

\* A set_light_state that dispatches without looking at the device kind.
set_light_state_unchecked(d, reply) == device_passthrough(d, reply)

set_light_state(d, reply) ==
    IF ~is_light(d.device_type) THEN Unsupported ELSE device_passthrough(d, reply)

set_brightness(d, reply) == set_light_state(d, reply)

set_color(d, reply) == set_light_state(d, reply)

set_color_temp(d, reply) == set_light_state(d, reply)

EnergyOps == {"get_power_usage_realtime", "get_power_usage_day", "get_power_usage_month"}

LightOps ==
    {"get_light_state", "set_light_state", "set_brightness", "set_color", "set_color_temp"}

PowerOps == {"power_on", "power_off"}

\* One public operation of Device on the resolved handle, as the handlers of
\* cli/power.rs, cli/energy.rs and cli/light.rs call them.
device_operation(op, d, reply) ==
    CASE op = "power_on"                 -> power_on(d, reply)
      [] op = "power_off"                -> power_off(d, reply)
      [] op = "get_power_usage_realtime" -> get_power_usage_realtime(d, reply)
      [] op = "get_power_usage_day"      -> get_power_usage_day(d, reply)
      [] op = "get_power_usage_month"    -> get_power_usage_month(d, reply)
      [] op = "get_light_state"          -> get_light_state(d, reply)
      [] op = "set_light_state"          -> set_light_state(d, reply)
      [] op = "set_brightness"           -> set_brightness(d, reply)
      [] op = "set_color"                -> set_color(d, reply)
      [] op = "set_color_temp"           -> set_color_temp(d, reply)

----------------------------------------------------------------------------
(* Session refresh (auth/credentials.rs).  reply is the cloud's answer to  *)
(* the refreshToken call, n the set_value call that fails (0: none).      *)
(* The result is the session, the store, the Result and the requests sent. *)

Refreshed(auth, st, result, reqs) ==
    [auth |-> auth, store |-> st, result |-> result, reqs |-> reqs]

refresh_auth(auth, st, reply, n) ==
    IF auth.refresh_token = None
    THEN Refreshed(auth, st, Err(AppError("NotAuthenticated")), << >>)
    ELSE LET rt  == unwrap(auth.refresh_token)
             req == << Request("refreshToken", Kasa, rt) >>
             r   == refresh_token(reply, auth.regional_url)
         IN  IF ~r.ok THEN Refreshed(auth, st, r, req)
             ELSE LET a2 == [auth EXCEPT !.token         = r.val.token,
                                         !.refresh_token = r.val.refresh_token,
                                         !.regional_url  = r.val.regional_url]
                      w  == store_tokens(st, to_token_set(a2), n)
                  IN  Refreshed(a2, w.store, w.result, req)

\* A secondary refresh that, without a secondary regional URL, asks the
\* primary one.
refresh_tapo_auth_on_primary_url(auth, st, reply, n) ==
    IF auth.tapo_refresh_token = None
    THEN Refreshed(auth, st, Err(AppError("NotAuthenticated")), << >>)
    ELSE LET rt  == unwrap(auth.tapo_refresh_token)
             url == unwrap_or(auth.tapo_regional_url, auth.regional_url)
             req == << Request("refreshToken", Tapo, rt) >>
             r   == refresh_token(reply, url)
         IN  IF ~r.ok THEN Refreshed(auth, st, r, req)
             ELSE LET a2 == [auth EXCEPT !.tapo_token         = Some(r.val.token),
                                         !.tapo_refresh_token = r.val.refresh_token,
                                         !.tapo_regional_url  = Some(r.val.regional_url)]
                      w  == store_tokens(st, to_token_set(a2), n)
                  IN  Refreshed(a2, w.store, w.result, req)

refresh_tapo_auth(auth, st, reply, n) ==
    IF auth.tapo_refresh_token = None
    THEN Refreshed(auth, st, Err(AppError("NotAuthenticated")), << >>)
    ELSE IF auth.tapo_regional_url = None
    THEN Refreshed(auth, st, Err(AppError("NotAuthenticated")), << >>)
    ELSE LET rt  == unwrap(auth.tapo_refresh_token)
             req == << Request("refreshToken", Tapo, rt) >>
             r   == refresh_token(reply, unwrap(auth.tapo_regional_url))
         IN  IF ~r.ok THEN Refreshed(auth, st, r, req)
             ELSE LET a2 == [auth EXCEPT !.tapo_token         = Some(r.val.token),
                                         !.tapo_refresh_token = r.val.refresh_token,
                                         !.tapo_regional_url  = Some(r.val.regional_url)]
                      w  == store_tokens(st, to_token_set(a2), n)
                  IN  Refreshed(a2, w.store, w.result, req)

----------------------------------------------------------------------------
(* Login (api/client.rs 200-365).  The business codes of login, like the    *)
(* token codes above, come from api/errors.rs; login tells them apart only  *)
(* by comparison, so what enters here is that they differ from each other   *)
(* and from 0.                                                              *)

ERR_MFA_REQUIRED == -20677

ERR_WRONG_CREDENTIALS == -20601

ERR_ACCOUNT_LOCKED == -20675

I32_MAX == 2147483647

I32_MIN == -I32_MAX - 1

\* A serde_json Value as login reads it: as_i64() and as_str().  Every integer
\* written here lies within i32, where `n as i32` leaves n as it is.
JsonInt(n) == [as_i64 |-> Some(n), as_str |-> None]

JsonStr(s) == [as_i64 |-> None, as_str |-> Some(s)]

\* A value that is neither an integer nor a string (true, 1.5, an object).
JsonOther == [as_i64 |-> None, as_str |-> None]

Digits == <<"0", "1", "2", "3", "4", "5", "6", "7", "8", "9">>

is_digit(ch) == \E d \in 1..Len(Digits) : Digits[d] = ch

digit_value(ch) == (CHOOSE d \in 1..Len(Digits) : Digits[d] = ch) - 1

\* str::parse::<i32>, the digits after the sign: a positive number is built
\* upwards and a negative one downwards, each step checked against the
\* range of i32.
RECURSIVE parse_digits(_, _, _, _)
parse_digits(digits, i, negative, acc) ==
    IF i > Len(digits) THEN Some(acc)
    ELSE IF ~is_digit(digits[i]) THEN None
    ELSE LET d == digit_value(digits[i])
         IN  IF negative
             THEN IF \/ acc < -(I32_MAX \div 10)
                     \/ acc = -(I32_MAX \div 10) /\ d > (I32_MAX % 10) + 1
                  THEN None
                  ELSE parse_digits(digits, i + 1, negative, acc * 10 - d)
             ELSE IF \/ acc > I32_MAX \div 10
                     \/ acc = I32_MAX \div 10 /\ d > I32_MAX % 10
                  THEN None
                  ELSE parse_digits(digits, i + 1, negative, acc * 10 + d)

parse_i32(s) ==
    IF is_empty(s) THEN None
    ELSE LET signed == s[1] \in {"-", "+"}
             digits == IF signed THEN Tail(s) ELSE s
         IN  IF is_empty(digits) THEN None
             ELSE parse_digits(digits, 1, s[1] = "-", 0)

\* An inner code that is only read when it is a JSON integer.
inner_error_of_integers(result) ==
    IF result = None \/ unwrap(result).errorCode = None THEN 0
    ELSE unwrap_or(unwrap(unwrap(result).errorCode).as_i64, 0)

\* result.get("errorCode"), read as an integer or parsed from a string;
\* 0 when the field is absent or gives neither.
inner_error_of(result) ==
    IF result = None \/ unwrap(result).errorCode = None THEN 0
    ELSE LET v == unwrap(unwrap(result).errorCode)
         IN  IF is_some(v.as_i64) THEN unwrap(v.as_i64)
             ELSE IF is_some(v.as_str) THEN unwrap_or(parse_i32(unwrap(v.as_str)), 0)
             ELSE 0

MfaRequired(mfa_type, email) ==
    [kind |-> "MfaRequired", msg |-> EmptyStr, names |-> << >>,
     mfa_type |-> mfa_type, email |-> email]

InvalidInput(message) == [kind |-> "InvalidInput", msg |-> message, names |-> << >>]

\* The Display text of an error (the "message" of AppError::to_json).
to_string(e) ==
    CASE e.kind = "Auth"         -> <<"Authentication failed: ">> \o e.msg
      [] e.kind = "MfaRequired"  -> <<"MFA verification required">>
      [] e.kind = "TokenExpired" -> <<"Token expired: ">> \o e.msg
      [] e.kind = "Api"          -> <<"API error: ">> \o e.msg
      [] OTHER                   -> e.msg

LoginResult(token, refresh, regional_url) ==
    [token |-> token, refresh_token |-> refresh, regional_url |-> regional_url]

\* result.get(field).and_then(|v| v.as_str()) on an optional result object.
str_field(result, field) == IF result = None THEN None ELSE unwrap(result)[field]

\* TPLinkApi::get_regional_url against host.
get_regional_url(reply, host) ==
    LET r == request_post(reply)
    IN  IF ~r.ok THEN r
        ELSE IF successful(r.val) /\ is_some(str_field(r.val.result, "appServerUrl"))
             THEN Ok(unwrap(str_field(r.val.result, "appServerUrl")))
        ELSE Ok(host)

\* A validation that lets an empty password through to the cloud.
login_validate_username_only(username, password) ==
    IF is_empty(username) THEN Err(InvalidInput(<<"Username is required">>))
    ELSE Ok("unit")

\* TPLinkApi::login, the checks ahead of every request.
login_validate(username, password) ==
    IF is_empty(username) THEN Err(InvalidInput(<<"Username is required">>))
    ELSE IF is_empty(password) THEN Err(InvalidInput(<<"Password is required">>))
    ELSE Ok("unit")

\* format!("Login failed with error code {}", error_code)
login_failed_code(error_code) == <<"Login failed with error code ", ToString(error_code)>>

\* TPLinkApi::login, from the answer to the login request on.
login_response(reply, username, regional_url) ==
    LET r == request_post(reply)
    IN  IF ~r.ok THEN r
        ELSE LET response   == r.val
                 error_code == response.error_code
                 result     == response.result
             IN  IF error_code = 0
                 THEN LET inner_error == inner_error_of(result)
                          inner_msg   == unwrap_or(str_field(result, "errorMsg"), <<"Login failed">>)
                      IN  IF inner_error # 0
                          THEN IF inner_error = ERR_MFA_REQUIRED
                               THEN Err(MfaRequired(str_field(result, "mfaType"), Some(username)))
                               ELSE IF inner_error \in {ERR_WRONG_CREDENTIALS, ERR_ACCOUNT_LOCKED}
                               THEN Err(Coded("Auth", inner_msg, Some(inner_error)))
                               ELSE Err(Coded("Api", inner_msg, Some(inner_error)))
                          ELSE Ok(LoginResult(unwrap_or(str_field(result, "token"), EmptyStr),
                                              str_field(result, "refreshToken"),
                                              regional_url))
                 ELSE IF error_code = ERR_MFA_REQUIRED
                 THEN Err(MfaRequired(str_field(result, "mfaType"), Some(username)))
                 ELSE IF error_code \in {ERR_WRONG_CREDENTIALS, ERR_ACCOUNT_LOCKED}
                 THEN Err(Coded("Auth", unwrap_or(response.msg, <<"Authentication failed">>),
                                Some(error_code)))
                 ELSE Err(Coded("Api", unwrap_or(response.msg, login_failed_code(error_code)),
                                Some(error_code)))

\* TPLinkApi::verify_mfa against host.
verify_mfa(reply, host) ==
    LET r == request_post(reply)
    IN  IF ~r.ok THEN r
        ELSE IF successful(r.val)
             THEN Ok(LoginResult(unwrap_or(str_field(r.val.result, "token"), EmptyStr),
                                 str_field(r.val.result, "refreshToken"),
                                 host))
        ELSE Err(Coded("Auth", unwrap_or(r.val.msg, <<"MFA verification failed">>),
                       Some(r.val.error_code)))

----------------------------------------------------------------------------
(* State                                                                   *)

VARIABLES
    store,      \* the credential store: key -> Option<String>
    registry,   \* the cloud: ecosystem -> the device list it returns
    issued,     \* the cloud: ecosystem -> number of the last token it issued
    loc         \* invocation -> the local state of that CLI invocation

vars == <<store, registry, issued, loc>>

Procs == {1, 2}

\* One step of an ecosystem's discovery and how it ended.
Step(step, r) == [step |-> step, res |-> IF r.ok THEN "Ok" ELSE r.err.kind]

\* The local state of an invocation of command cmd (devices list, or a device
\* command on the device named query) before its first step.
Invocation(cmd, query) ==
    [pc         |-> "load",
     cmd        |-> cmd,
     query      |-> query,
     auth       |-> None,
     cloud      |-> Kasa,
     token      |-> EmptyStr,
     before     |-> None,
     listed     |-> [c \in CloudType |-> None],
     trace      |-> [c \in CloudType |-> << >>],
     outcome    |-> [c \in CloudType |-> None],
     sent       |-> << >>,
     devices    |-> << >>,
     seen_ids   |-> {},
     kasa_ids   |-> {},
     device     |-> None,
     command    |-> << >>,
     op         |-> None,
     call       |-> None,
     result     |-> None,
     printed    |-> None,
     exit       |-> None]

Off == [Invocation("none", EmptyStr) EXCEPT !.pc = "off"]

\* The latest call of an API function: the reply the cloud gave and what the
\* function returned.
Call(op, c, reply, ret) == [op |-> op, cloud |-> c, reply |-> reply, ret |-> ret]

\* The handler returns r to run, which turns it into the exit code.
Finish(l, r) == [l EXCEPT !.pc = "done", !.result = Some(r), !.exit = Some(run(r))]

\* Both ecosystems are done: fetch_all_devices returns the list,
\* resolve_device goes on to the resolution rules.
AfterDiscovery(l) ==
    IF l.cmd = "list" THEN Finish(l, Ok("devices")) ELSE [l EXCEPT !.pc = "resolve"]

\* A secondary discovery whose error ends the command, as the primary's does.
EndTapo_propagating(l, r) ==
    LET l1 == [l EXCEPT !.outcome[Tapo] = Some(r)]
    IN  IF r.ok THEN AfterDiscovery(l1) ELSE Finish(l1, r)

\* The secondary ecosystem's discovery ended with r: an error is dropped.
EndTapo(l, r) == AfterDiscovery([l EXCEPT !.outcome[Tapo] = Some(r)])

\* The secondary discovery begins, if the session has a secondary token.
StartTapo(l) ==
    IF ~has_tapo(unwrap(l.auth)) THEN AfterDiscovery(l)
    ELSE LET s == session_for(unwrap(l.auth), Tapo)
         IN  IF ~s.ok THEN EndTapo([l EXCEPT !.cloud = Tapo], s)
             ELSE [l EXCEPT !.cloud = Tapo, !.token = s.val.token, !.pc = "fetch"]

\* A primary discovery whose error is dropped, as the secondary's is.
EndKasa_best_effort(l, r) == StartTapo([l EXCEPT !.outcome[Kasa] = Some(r)])

\* The primary ecosystem's discovery ended with r: an error ends the command.
EndKasa(l, r) ==
    LET l1 == [l EXCEPT !.outcome[Kasa] = Some(r)]
    IN  IF r.ok THEN StartTapo(l1) ELSE Finish(l1, r)

EndCollect(l, r) == IF l.cloud = Kasa THEN EndKasa(l, r) ELSE EndTapo(l, r)

StartKasa(l) ==
    LET s == session_for(unwrap(l.auth), Kasa)
    IN  [l EXCEPT !.cloud = Kasa, !.token = s.val.token, !.pc = "fetch"]

\* The device list of ecosystem l.cloud arrived: the entries it adds.
OnDeviceList(l, device_list) ==
    IF l.cmd = "list"
    THEN LET acc == fetch_loop(device_list, 1, l.cloud, l.token,
                               [devices |-> << >>, reqs |-> << >>])
         IN  IF l.cloud = Kasa
             THEN [l EXCEPT !.devices  = acc.devices,
                            !.kasa_ids = ids_of(acc.devices),
                            !.listed[Kasa] = Some(device_list),
                            !.sent     = @ \o acc.reqs]
             ELSE [l EXCEPT !.devices = merge_tapo(@, l.kasa_ids, acc.devices),
                            !.listed[Tapo] = Some(device_list),
                            !.sent    = @ \o acc.reqs]
    ELSE LET acc == collect_loop(device_list, 1, l.cloud, l.token,
                                 [devices  |-> l.devices,
                                  seen_ids |-> l.seen_ids,
                                  reqs     |-> << >>])
         IN  [l EXCEPT !.devices  = acc.devices,
                       !.seen_ids = acc.seen_ids,
                       !.listed[l.cloud] = Some(device_list),
                       !.sent     = @ \o acc.reqs]

----------------------------------------------------------------------------
(* What the cloud may answer                                               *)

Reply(sent, status_ok, error_code, result) ==
    [sent |-> sent, status_ok |-> status_ok, error_code |-> error_code, result |-> result,
     msg |-> None, status |-> IF status_ok THEN 200 ELSE 500, body |-> EmptyStr]

\* Replies other than a success with a payload: a transport failure, a
\* non-success HTTP status, the two expiry codes, another business code, and a
\* success without a result.
FaultReplies ==
    { Reply(FALSE, FALSE, 0, None),
      Reply(TRUE, FALSE, 0, None),
      Reply(TRUE, TRUE, ERR_TOKEN_EXPIRED, None),
      Reply(TRUE, TRUE, ERR_REFRESH_TOKEN_EXPIRED, None),
      Reply(TRUE, TRUE, -1, None),
      Reply(TRUE, TRUE, 0, None) }

ListedReplies(c) == { Reply(TRUE, TRUE, 0, Some([deviceList |-> Some(registry[c])])) }

\* A successful refresh issues token number issued[c] + 1; either field may
\* be missing from the result.
RefreshedReplies(c) ==
    { Reply(TRUE, TRUE, 0, Some([token |-> t, refreshToken |-> rt])) :
        t \in {None, Some(<<issued[c] + 1>>)}, rt \in {None, Some(<<issued[c] + 1>>)} }

CompleteRefreshedReplies(c) ==
    { Reply(TRUE, TRUE, 0, Some([token        |-> Some(<<issued[c] + 1>>),
                                 refreshToken |-> Some(<<issued[c] + 1>>)])) }

\* The decoded responseData of a passthrough, seen from the sub-request it
\* answers: found is the response holding an entry for the request type and
\* the sub-request type, the other fields are those of that entry.
ResponseData(decodes, children) ==
    [decodes     |-> decodes,
     found       |-> TRUE,
     children    |-> children,
     light_state |-> None,
     relay_state |-> None,
     state       |-> None]

CommandReplies ==
    { Reply(TRUE, TRUE, 0, Some([responseData |-> rd])) :
        rd \in {None, Some(ResponseData(TRUE, None)), Some(ResponseData(FALSE, None))} }

\* Failures of a device command: a business code with its message, and an
\* HTTP failure whose body carries the token-expired code.
CommandFaultReplies ==
    { [Reply(TRUE, TRUE, -1, None) EXCEPT !.msg = Some(<<"m">>)],
      [Reply(TRUE, FALSE, ERR_TOKEN_EXPIRED, None) EXCEPT !.status = 401, !.body = <<"x">>] }

----------------------------------------------------------------------------
(* Actions: the steps of one CLI invocation p, one per awaited call.       *)

\* get_auth_context at the head of fetch_all_devices and resolve_device; a
\* keychain read may fail.
LoadSession(p) ==
    /\ loc[p].pc = "load"
    /\ \E readable \in BOOLEAN :
         LET r == IF readable THEN get_auth_context(store)
                  ELSE Err(AppError("Keychain"))
             l == [loc[p] EXCEPT !.before = get_tokens(store)]
         IN  loc' = [loc EXCEPT ![p] =
                        IF r.ok THEN StartKasa([l EXCEPT !.auth = Some(r.val)])
                        ELSE Finish(l, r)]
    /\ UNCHANGED <<store, registry, issued>>

\* The first get_device_info_list of an ecosystem's discovery, answered by
\* one of replies.
FetchDeviceList(p, replies) ==
    /\ loc[p].pc = "fetch"
    /\ \E reply \in replies :
         LET l  == loc[p]
             r  == get_device_info_list(reply)
             l1 == [l EXCEPT !.sent = Append(@, Request("getDeviceList", l.cloud, l.token)),
                             !.call = Some(Call("get_device_info_list", l.cloud, reply, r)),
                             !.trace[l.cloud] = Append(@, Step("fetch", r))]
         IN  loc' = [loc EXCEPT ![p] =
                        IF r.ok THEN EndCollect(OnDeviceList(l1, r.val), Ok("unit"))
                        ELSE IF r.err.kind = "TokenExpired" THEN [l1 EXCEPT !.pc = "refresh"]
                        ELSE EndCollect(l1, r)]
    /\ UNCHANGED <<store, registry, issued>>

\* refresh_auth or refresh_tapo_auth after a TokenExpired device list,
\* answered by one of replies, with store_tokens' n-th write failing (if any).
RefreshSession(p, replies, writes) ==
    /\ loc[p].pc = "refresh"
    /\ \E reply \in replies, n \in writes :
         LET l    == loc[p]
             c    == l.cloud
             f    == IF c = Kasa THEN refresh_auth(unwrap(l.auth), store, reply, n)
                     ELSE refresh_tapo_auth(unwrap(l.auth), store, reply, n)
             l1   == [l EXCEPT !.auth = Some(f.auth),
                               !.before = get_tokens(store),
                               !.sent = @ \o f.reqs,
                               !.call = IF f.reqs = << >> THEN @
                                        ELSE Some(Call("refresh_token", c, reply,
                                                       refresh_token(reply, EmptyStr))),
                               !.trace[c] = Append(@, Step("refresh", f.result))]
             answered == f.reqs # << >> /\ refresh_token(reply, EmptyStr).ok
         IN  /\ loc' = [loc EXCEPT ![p] =
                          IF f.result.ok THEN [l1 EXCEPT !.pc = "retry"]
                          ELSE EndCollect(l1, f.result)]
             /\ store' = f.store
             /\ issued' = IF answered THEN [issued EXCEPT ![c] = @ + 1] ELSE issued
    /\ UNCHANGED registry

\* A retry that treats a second expiry like the first and refreshes again:
\* the unbounded loop that resolve.rs 92-99 and 285-291 do not have.
RetryDeviceList_refreshing_again(p, replies) ==
    /\ loc[p].pc = "retry"
    /\ \E reply \in replies :
         LET l  == loc[p]
             t  == refreshed_token(unwrap(l.auth), l.cloud)
             r  == get_device_info_list(reply)
             l1 == [l EXCEPT !.sent = Append(@, Request("getDeviceList", l.cloud, t.val)),
                             !.call = Some(Call("get_device_info_list", l.cloud, reply, r)),
                             !.trace[l.cloud] = Append(@, Step("fetch", r))]
         IN  loc' = [loc EXCEPT ![p] =
                        IF ~t.ok THEN EndCollect(l, t)
                        ELSE IF r.ok THEN EndCollect(OnDeviceList(l1, r.val), Ok("unit"))
                        ELSE IF r.err.kind = "TokenExpired" THEN [l1 EXCEPT !.pc = "refresh"]
                        ELSE EndCollect(l1, r)]
    /\ UNCHANGED <<store, registry, issued>>

\* The second get_device_info_list, with the token read back from the session.
RetryDeviceList(p, replies) ==
    /\ loc[p].pc = "retry"
    /\ \E reply \in replies :
         LET l  == loc[p]
             t  == refreshed_token(unwrap(l.auth), l.cloud)
             r  == get_device_info_list(reply)
             l1 == [l EXCEPT !.sent = Append(@, Request("getDeviceList", l.cloud, t.val)),
                             !.call = Some(Call("get_device_info_list", l.cloud, reply, r)),
                             !.trace[l.cloud] = Append(@, Step("fetch", r))]
         IN  loc' = [loc EXCEPT ![p] =
                        IF ~t.ok THEN EndCollect(l, t)
                        ELSE IF r.ok THEN EndCollect(OnDeviceList(l1, r.val), Ok("unit"))
                        ELSE EndCollect(l1, r)]
    /\ UNCHANGED <<store, registry, issued>>

\* resolve_device, from the resolution rules on: the handle or the error.
ResolveDevice(p) ==
    /\ loc[p].pc = "resolve"
    /\ LET l == loc[p]
           r == resolve_device(l.devices, l.query, unwrap(l.auth))
       IN  loc' = [loc EXCEPT ![p] =
                      IF r.ok THEN [l EXCEPT !.device = Some(r.val), !.pc = "command"]
                      ELSE Finish(l, r)]
    /\ UNCHANGED <<store, registry, issued>>

\* A device command of a CLI handler (cli/power.rs, cli/energy.rs,
\* cli/light.rs): one operation on the resolved handle, its error returned to
\* the caller with `?`.
DeviceCommand(p, ops, replies) ==
    /\ loc[p].pc = "command"
    /\ \E op \in ops, reply \in replies :
         LET l == loc[p]
             d == unwrap(l.device)
             o == device_operation(op, d, reply)
         IN  loc' = [loc EXCEPT ![p] =
                        Finish([l EXCEPT !.op = Some(op),
                                         !.sent = @ \o o.reqs,
                                         !.call = IF o.reqs = << >> THEN @
                                                  ELSE Some(Call("passthrough", d.cloud_type,
                                                                 reply, client_passthrough(reply))),
                                         !.command = IF o.reqs = << >> THEN @
                                                     ELSE Append(@, Step("passthrough", o.result))],
                               o.result)]
    /\ UNCHANGED <<store, registry, issued>>

\* let new_state = if was_on == Some(true) { "off" } else { "on" };
new_state(was_on) == IF was_on = Some(TRUE) THEN "off" ELSE "on"

\* power toggle of cli/power.rs: the handler reads the state for its report
\* (was), then Device::toggle reads it again (reply) and sends the power
\* command (reply2).
ToggleCommand(p, states, replies) ==
    /\ loc[p].pc = "command"
    /\ \E was \in states, reply \in states, reply2 \in replies :
         LET l == loc[p]
             d == unwrap(l.device)
             was_on == is_on(d, was)
             t == toggle(d, reply, reply2)
         IN  loc' = [loc EXCEPT ![p] =
                        IF ~was_on.result.ok
                        THEN Finish([l EXCEPT !.op = Some("is_on"),
                                              !.sent = @ \o was_on.reqs,
                                              !.command = Append(@, Step("is_on", was_on.result))],
                                    was_on.result)
                        ELSE Finish([l EXCEPT !.op = Some("toggle"),
                                              !.printed = IF t.result.ok
                                                          THEN Some(new_state(was_on.result.val))
                                                          ELSE @,
                                              !.sent = @ \o was_on.reqs \o t.reqs,
                                              !.call = Some(Call("is_on", d.cloud_type, reply,
                                                                 is_on(d, reply).result)),
                                              !.command = @ \o << Step("is_on", was_on.result),
                                                                  Step("toggle", t.result) >>],
                                    t.result)]
    /\ UNCHANGED <<store, registry, issued>>

----------------------------------------------------------------------------
(* Initial states                                                          *)

Url(c) == IF c = Kasa THEN <<"k">> ELSE <<"t">>

\* The token sets handle_login can build (cli/auth.rs): a login result's token
\* is empty and its refresh token absent when the reply lacks the field; the
\* three secondary fields are absent when the secondary login failed.
LoginTokenSets ==
    { [token              |-> t,
       refresh_token      |-> rt,
       username           |-> <<"u">>,
       regional_url       |-> Url(Kasa),
       term_id            |-> <<"i">>,
       tapo_token         |-> IF tapo = None THEN None ELSE Some(unwrap(tapo).token),
       tapo_refresh_token |-> IF tapo = None THEN None ELSE unwrap(tapo).refresh_token,
       tapo_regional_url  |-> IF tapo = None THEN None ELSE Some(Url(Tapo))] :
        t    \in {EmptyStr, <<1>>},
        rt   \in {None, Some(<<1>>)},
        tapo \in {None} \cup { Some([token |-> tt, refresh_token |-> trt]) :
                                 tt \in {EmptyStr, <<1>>}, trt \in {None, Some(<<1>>)} } }

\* The stores a login on an empty store leaves, a failed store_tokens included.
SessionStores ==
    { store_tokens(EmptyStore, t, n).store : t \in LoginTokenSets, n \in 0 .. Cardinality(Keys) }

\* The store after a login in which every field arrived and every write succeeded.
FullStore ==
    [k \in Keys |->
        CASE k = "username" -> Some(<<"u">>)
          [] k = "regional_url" -> Some(Url(Kasa))
          [] k = "term_id" -> Some(<<"i">>)
          [] k = "tapo_regional_url" -> Some(Url(Tapo))
          [] OTHER -> Some(<<1>>)]

DeviceJson(device_id, alias, device_model) ==
    [valid        |-> TRUE,
     device_id    |-> device_id,
     alias        |-> alias,
     device_name  |-> None,
     device_model |-> Some(device_model),
     cloud_type   |-> None]

Sysinfo(children) ==
    Reply(TRUE, TRUE, 0, Some([responseData |-> Some(ResponseData(TRUE, children))]))

Unreachable == Reply(FALSE, FALSE, 0, None)

Plain(device_id, alias) ==
    [json |-> DeviceJson(Some(device_id), Some(alias), <<"H","S","1","0","0">>),
     sysinfo |-> Unreachable]

Strip(device_id, alias, sysinfo) ==
    [json |-> DeviceJson(Some(device_id), Some(alias), <<"H","S","3","0","0","(","U","S",")">>),
     sysinfo |-> sysinfo]

Child(child_id, alias) == [id |-> child_id, alias |-> alias, state |-> None]

\* The pairs of device lists of at most n devices altogether, drawn from ds.
RECURSIVE SeqsOf(_, _)
SeqsOf(ds, n) ==
    IF n = 0 THEN { << >> }
    ELSE LET shorter == SeqsOf(ds, n - 1)
         IN  shorter \cup { Append(q, d) : q \in {x \in shorter : Len(x) = n - 1}, d \in ds }

Registries(ds, n) ==
    { [c \in CloudType |-> IF c = Kasa THEN r[1] ELSE r[2]] :
        r \in { x \in SeqsOf(ds, n) \X SeqsOf(ds, n) : Len(x[1]) + Len(x[2]) <= n } }

----------------------------------------------------------------------------
(* Spec: one invocation (a device command, or devices list) against every  *)
(* store a login can leave and every answer the cloud can give.            *)

\* A light (KL430) and a power strip (HS300) with one outlet, which meters
\* energy.
Lamp ==
    [json    |-> DeviceJson(Some(<<"a">>), Some(<<"a","b">>), <<"K","L","4","3","0","(","U","S",")">>),
     sysinfo |-> Unreachable]

Bar == Strip(<<"b">>, <<"B","a">>, Sysinfo(Some(<< Child(<<"0">>, <<"a">>) >>)))

MaxListed == 1

SmallRegistries == Registries({Lamp, Bar}, MaxListed)

Init ==
    /\ store \in SessionStores
    /\ registry \in SmallRegistries
    /\ issued = [c \in CloudType |-> 1]
    /\ \E cmd \in {"list", "device"}, query \in {<<"a">>, <<"b">>} :
         loc = [p \in Procs |-> IF p = 1 THEN Invocation(cmd, query) ELSE Off]

Fetch(p) == FetchDeviceList(p, ListedReplies(loc[p].cloud) \cup FaultReplies)

\* The set_value call of store_tokens that fails: 0 for none.
FailingWrite == 0 .. Cardinality(Keys)

Refresh(p) ==
    RefreshSession(p, RefreshedReplies(loc[p].cloud) \cup FaultReplies, FailingWrite)

Retry(p) == RetryDeviceList(p, ListedReplies(loc[p].cloud) \cup FaultReplies)

\* The answers to a power command: a payload, none, or a failure of the call.
PowerReplies == CommandReplies \cup FaultReplies

Command(p) == DeviceCommand(p, PowerOps, PowerReplies)

Next ==
    \E p \in Procs :
        \/ LoadSession(p)
        \/ Fetch(p)
        \/ Refresh(p)
        \/ Retry(p)
        \/ ResolveDevice(p)
        \/ Command(p)

Spec == Init /\ [][Next]_vars

----------------------------------------------------------------------------
(* Properties of one invocation (Spec)                                     *)

\* The requests of kind op that invocation state l sent to ecosystem c.
Sent(l, op, c) == SelectSeq(l.sent, LAMBDA q : q.op = op /\ q.cloud = c)

StepsOf(tr, k) == SelectSeq(tr, LAMBDA s : s.step = k)

Kind(r) == IF r.ok THEN "Ok" ELSE r.err.kind

Expired == [step |-> "fetch", res |-> "TokenExpired"]

\* C1: per invocation and ecosystem, discovery sends at most two device-list
\* fetches and at most one refresh call.  A discovery whose first fetch ended
\* in TokenExpired refreshed exactly once; if that refresh succeeded it
\* fetched exactly once more, with the refreshed token and not the expired
\* one, and the discovery ended as that second fetch ended (its error is not
\* retried or rewritten, and the primary ecosystem's error is the command's
\* result).  A first fetch that ended otherwise was neither refreshed nor
\* repeated.
C1_RefreshOnceRetryOnce ==
    \A p \in Procs : \A c \in CloudType :
        LET l         == loc[p]
            tr        == l.trace[c]
            fetches   == Sent(l, "getDeviceList", c)
            refreshes == Sent(l, "refreshToken", c)
        IN  /\ Len(fetches) <= 2
            /\ Len(refreshes) <= 1
            /\ Len(StepsOf(tr, "fetch")) = Len(fetches)
            /\ Len(StepsOf(tr, "refresh")) <= 1
            /\ l.outcome[c] # None =>
                 IF tr # << >> /\ tr[1] = Expired
                 THEN /\ Len(tr) >= 2
                      /\ tr[2].step = "refresh"
                      /\ Kind(unwrap(l.outcome[c])) = tr[Len(tr)].res
                      /\ IF tr[2].res = "Ok"
                         THEN /\ Len(tr) = 3
                              /\ tr[3].step = "fetch"
                              /\ Len(refreshes) = 1
                              /\ Len(fetches) = 2
                              /\ fetches[2].token \in {<<issued[c]>>, EmptyStr}
                              /\ fetches[2].token # <<1>>
                              /\ (c = Kasa /\ tr[3].res # "Ok") => l.result = l.outcome[c]
                         ELSE Len(tr) = 2 /\ Len(fetches) = 1
                 ELSE Len(tr) <= 1 /\ Len(refreshes) = 0

\* C1's case: the primary discovery expired, refreshed, and its retry expired
\* again; the command is over with that TokenExpired.
C1_RetryExpiredAgain ==
    LET l == loc[1]
    IN  /\ l.pc = "done"
        /\ l.trace[Kasa] = << Expired, [step |-> "refresh", res |-> "Ok"], Expired >>
        /\ Sent(l, "getDeviceList", Kasa)[2].token = <<2>>
        /\ l.result = Some(Err(AppError("TokenExpired")))

\* C2: a device command whose passthrough ended in TokenExpired is followed
\* by one refresh and one more passthrough, and the command ends as that
\* second passthrough ended.
C2_PassthroughExpiryRetried ==
    \A p \in Procs :
        LET l == loc[p]
        IN  (l.pc = "done" /\ l.command # << >> /\ l.command[1].res = "TokenExpired")
            => /\ Len(l.command) = 3
               /\ l.command[2].step = "refresh"
               /\ l.command[3].step = "passthrough"
               /\ Kind(unwrap(l.result)) = l.command[3].res

\* C3: the stored session record is, at every moment, either the record as it
\* was before the invocation's last refresh or the whole refreshed session,
\* never some fields of one and some of the other.
C3_StoredRecordNeverMixed ==
    \A p \in Procs :
        loc[p].auth # None =>
            get_tokens(store) \in {loc[p].before, Some(to_token_set(unwrap(loc[p].auth)))}

\* C5: no device-list fetch, sysinfo query or passthrough command is sent
\* with an empty token.
C5_NoEmptyTokenSent ==
    \A p \in Procs : \A i \in 1..Len(loc[p].sent) :
        loc[p].sent[i].op \in {"getDeviceList", "passthrough", "get_sysinfo"}
            => ~is_empty(loc[p].sent[i].token)

\* The catalog the two builders make of the primary list alone, the secondary
\* list being empty.
KasaCatalog(l) ==
    LET kasa == unwrap(l.listed[Kasa])
        none == << >>
    IN  IF l.cmd = "list"
        THEN LET k == fetch_loop(kasa, 1, Kasa, EmptyStr, [devices |-> << >>, reqs |-> << >>])
                 t == fetch_loop(none, 1, Tapo, EmptyStr, [devices |-> << >>, reqs |-> << >>])
             IN  merge_tapo(k.devices, ids_of(k.devices), t.devices)
        ELSE LET k == collect_loop(kasa, 1, Kasa, EmptyStr,
                                   [devices |-> << >>, seen_ids |-> {}, reqs |-> << >>])
                 t == collect_loop(none, 1, Tapo, EmptyStr,
                                   [devices |-> k.devices, seen_ids |-> k.seen_ids, reqs |-> << >>])
             IN  t.devices

TapoFailed(l) ==
    /\ l.outcome[Kasa] # None /\ unwrap(l.outcome[Kasa]).ok
    /\ l.outcome[Tapo] # None /\ ~unwrap(l.outcome[Tapo]).ok

\* C11: once the secondary (Tapo) discovery has failed, by a fetch error, a
\* failed or impossible refresh, or a missing regional URL, the catalog is
\* the one built from the primary list with an empty secondary list, the list
\* command succeeds, and a device command resolves (or fails to resolve)
\* exactly as it does on that catalog.
C11_TapoFailureIsEmptyList ==
    \A p \in Procs :
        LET l == loc[p]
        IN  TapoFailed(l) =>
              /\ l.devices = KasaCatalog(l)
              /\ l.cmd = "list" => l.pc = "done" /\ l.result = Some(Ok("devices"))
              /\ l.cmd = "device" =>
                    LET r == resolve_device(KasaCatalog(l), l.query, unwrap(l.auth))
                    IN  /\ l.pc \in {"resolve", "command", "done"}
                        /\ l.pc # "resolve" =>
                              IF r.ok THEN l.device = Some(r.val)
                              ELSE l.pc = "done" /\ l.result = Some(r)

\* C11's case: the secondary cloud holds the device asked for, its discovery
\* failed, and the device command ended as on an empty secondary list: the
\* device is not found.
C11_NotFoundAfterTapoFailure ==
    LET l == loc[1]
    IN  /\ TapoFailed(l)
        /\ registry[Tapo] # << >>
        /\ l.cmd = "device"
        /\ l.pc = "done"
        /\ l.result # None
        /\ Kind(unwrap(l.result)) = "DeviceNotFound"

\* The latest API call of invocation l was op and the cloud answered it.
Answered(l, op) ==
    /\ l.call # None
    /\ unwrap(l.call).op = op
    /\ unwrap(l.call).reply.sent

\* C12: a refresh answered with the refresh-token-expired code fails with the
\* kind RefreshTokenExpired, which is neither Api nor the retryable
\* TokenExpired.
C12_RefreshTokenExpiredKind ==
    \A p \in Procs :
        LET l == loc[p]
        IN  (/\ Answered(l, "refresh_token")
             /\ unwrap(l.call).reply.status_ok
             /\ unwrap(l.call).reply.error_code = ERR_REFRESH_TOKEN_EXPIRED)
            => /\ Kind(unwrap(l.call).ret) = "RefreshTokenExpired"
               /\ Kind(unwrap(l.call).ret) \notin {"Api", "TokenExpired"}

\* C13: once a refresh has failed with the refresh-token-expired condition
\* the session is Unauthenticated: loading it from the store reports
\* not-authenticated.
C13_UnauthenticatedAfterRefreshExpiry ==
    \A p \in Procs :
        LET l == loc[p]
        IN  (/\ Answered(l, "refresh_token")
             /\ unwrap(l.call).reply.status_ok
             /\ unwrap(l.call).reply.error_code = ERR_REFRESH_TOKEN_EXPIRED)
            => ~get_auth_context(store).ok

\* C18: get_device_info_list fails with TokenExpired exactly when the
\* response carries the token-expired code, and every other response that is
\* not a success (HTTP status or business code) gives the empty list.
C18_ListFetchDegrades ==
    \A p \in Procs :
        LET l == loc[p]
        IN  Answered(l, "get_device_info_list") =>
              LET reply == unwrap(l.call).reply
                  ret   == unwrap(l.call).ret
              IN  /\ Kind(ret) = "TokenExpired" <=> reply.error_code = ERR_TOKEN_EXPIRED
                  /\ (/\ reply.error_code # ERR_TOKEN_EXPIRED
                      /\ ~(reply.status_ok /\ successful(reply)))
                     => ret = Ok(<< >>)

\* The store holds no token, or an empty one.
NoStoredToken(st) == get_tokens(st) = None \/ is_empty(unwrap(get_tokens(st)).token)

C27_RefreshedTokenOnLaterRequests ==
    \A p \in Procs :
        LET l == loc[p]
        IN  \A k, j \in 1 .. Len(l.sent) :
              LET c == l.sent[k].cloud
              IN  (/\ k < j
                   /\ l.sent[k].op = "refreshToken"
                   /\ [step |-> "refresh", res |-> "Ok"] \in
                         { l.trace[c][i] : i \in 1 .. Len(l.trace[c]) }
                   /\ l.sent[j].cloud = c)
                  => l.sent[j].token = refreshed_token(unwrap(l.auth), c).val

\* The positions in l.sent of the requests to the secondary ecosystem.
TapoRequests(l) == { j \in 1 .. Len(l.sent) : l.sent[j].cloud = Tapo }

\* C30: discovery asks the primary ecosystem first and finishes with it
\* before it asks the secondary one; a primary discovery that ended in an
\* error ends the command with that error and no request to the secondary
\* ecosystem; and the first request to the secondary ecosystem carries the
\* stored secondary token, which is not empty.
C30_PrimaryThenSecondary ==
    \A p \in Procs :
        LET l == loc[p]
        IN  l.auth # None =>
              /\ l.sent # << >> =>
                    l.sent[1].op = "getDeviceList" /\ l.sent[1].cloud = Kasa
              /\ \A i, j \in 1 .. Len(l.sent) :
                    (i < j /\ l.sent[i].cloud = Tapo /\ l.sent[j].cloud = Kasa)
                        => l.sent[j].op = "passthrough"
              /\ (l.outcome[Kasa] # None /\ ~unwrap(l.outcome[Kasa]).ok) =>
                    /\ l.pc = "done"
                    /\ l.result = l.outcome[Kasa]
                    /\ TapoRequests(l) = {}
              /\ TapoRequests(l) # {} =>
                    LET first == CHOOSE j \in TapoRequests(l) : \A k \in TapoRequests(l) : j <= k
                    IN  /\ l.outcome[Kasa] # None
                        /\ unwrap(l.outcome[Kasa]).ok
                        /\ l.sent[first].op = "getDeviceList"
                        /\ ~is_empty(l.sent[first].token)
                        /\ unwrap(l.before).tapo_token = Some(l.sent[first].token)

\* C30's case: the store holds a secondary token, the primary device list
\* failed with an error that is not an expiry, and the command ended with it
\* after that single request.
C30_PrimaryFailureStopsDiscovery ==
    LET l == loc[1]
    IN  /\ l.pc = "done"
        /\ l.auth # None
        /\ has_tapo(unwrap(l.auth))
        /\ l.trace[Kasa] = << [step |-> "fetch", res |-> "Api"] >>
        /\ Kind(unwrap(l.result)) = "Api"
        /\ Len(l.sent) = 1
        /\ TapoRequests(l) = {}

----------------------------------------------------------------------------
(* SpecCommand: one device command on a complete session, over every       *)
(* operation of the power, energy and light handlers and every answer to   *)
(* its passthrough call.                                                    *)

CommandInit ==
    /\ store = FullStore
    /\ registry \in SmallRegistries
    /\ issued = [c \in CloudType |-> 1]
    /\ \E query \in {<<"a">>, <<"b">>} :
         loc = [p \in Procs |-> IF p = 1 THEN Invocation("device", query) ELSE Off]

CommandOps == PowerOps \cup EnergyOps \cup LightOps

AnyCommandReplies == CommandReplies \cup CommandFaultReplies \cup FaultReplies

CommandNext ==
    \E p \in Procs :
        \/ LoadSession(p)
        \/ FetchDeviceList(p, ListedReplies(loc[p].cloud))
        \/ ResolveDevice(p)
        \/ DeviceCommand(p, CommandOps, AnyCommandReplies)

SpecCommand == CommandInit /\ [][CommandNext]_vars

Inapplicable(op, d) ==
    \/ op \in EnergyOps /\ ~has_emeter(d.device_type)
    \/ op \in LightOps /\ ~is_light(d.device_type)

\* C20: an energy operation on a kind without metering and a light operation
\* on a kind that is not a light fail with UnsupportedOperation and send no
\* passthrough call; every other operation sends exactly one.
C20_UnsupportedBeforeAnyCall ==
    \A p \in Procs :
        LET l == loc[p]
        IN  l.op # None =>
              LET d == unwrap(l.device)
                  n == Len(Sent(l, "passthrough", Kasa)) + Len(Sent(l, "passthrough", Tapo))
              IN  IF Inapplicable(unwrap(l.op), d)
                  THEN /\ l.result = Some(Err(AppError("UnsupportedOperation")))
                       /\ n = 0
                       /\ l.command = << >>
                  ELSE n = 1

\* C20's case: set_brightness, which goes through set_light_state, was asked
\* of a power strip, which is not a light, and failed without a call.
C20_BrightnessOnStrip ==
    LET l == loc[1]
    IN  /\ l.pc = "done"
        /\ l.op = Some("set_brightness")
        /\ ~is_light(unwrap(l.device).device_type)
        /\ Kind(unwrap(l.result)) = "UnsupportedOperation"
        /\ l.command = << >>

\* The requests a handler sent through its handle.
Passthroughs(l) == { k \in 1 .. Len(l.sent) : l.sent[k].op = "passthrough" }

\* C33: every request of a handle resolved to a sub-unit (an entry with a
\* child id, of a sub-unit kind) carries context = { child_ids: [id] } with
\* exactly that entry's child id; every request of a handle resolved to a
\* composite parent or to a device without sub-units carries no context.
C33_ContextIffSubUnit ==
    \A p \in Procs :
        LET l == loc[p]
        IN  l.device # None =>
              LET d == unwrap(l.device)
                  e == resolve_entry(l.devices, l.query).val
              IN  \A k \in Passthroughs(l) :
                    /\ l.sent[k].device_id = id(e.info)
                    /\ (l.sent[k].context # None) <=> (e.child_id # None)
                    /\ (e.child_id # None) <=> is_child(e.dtype)
                    /\ e.child_id # None =>
                          l.sent[k].context = Some([child_ids |-> << unwrap(e.child_id) >>])

\* C33's case: an energy query was sent through the handle of the strip's
\* outlet "0", with that outlet's id as the only child id.
C33_OutletNamedInContext ==
    LET l == loc[1]
    IN  /\ l.pc = "done"
        /\ l.op = Some("get_power_usage_realtime")
        /\ unwrap(l.device).device_type = "HS300Child"
        /\ Passthroughs(l) # {}
        /\ \A k \in Passthroughs(l) :
              l.sent[k].context = Some([child_ids |-> << <<"0">> >>])

----------------------------------------------------------------------------
(* SpecUnwrap: one power or energy command on a complete session, the       *)
(* device answering with a payload that has no children array, or one that *)
(* lists the handle's outlet, other outlets, or both.                       *)

\* Payloads with a children array: outlet "0" alone, behind outlet "9", twice
\* (under two aliases), absent, and an empty array; and a response without
\* the entry asked for.
ChildReplies ==
    { Sysinfo(Some(arr)) :
        arr \in { << Child(<<"0">>, <<"a">>) >>,
                  << Child(<<"9">>, <<"x">>), Child(<<"0">>, <<"a">>) >>,
                  << Child(<<"0">>, <<"a">>), Child(<<"0">>, <<"x">>) >>,
                  << Child(<<"9">>, <<"x">>) >>,
                  << >> } }
    \cup { Reply(TRUE, TRUE, 0, Some([responseData |->
                                        Some([ResponseData(TRUE, None) EXCEPT !.found = FALSE])])) }

UnwrapOps == PowerOps \cup EnergyOps

UnwrapReplies == ChildReplies \cup CommandReplies \cup FaultReplies

UnwrapNext ==
    \E p \in Procs :
        \/ LoadSession(p)
        \/ FetchDeviceList(p, ListedReplies(loc[p].cloud))
        \/ ResolveDevice(p)
        \/ DeviceCommand(p, UnwrapOps, UnwrapReplies)

SpecUnwrap == CommandInit /\ [][UnwrapNext]_vars

\* The operation the handler called made its passthrough call, which gave
\* the payload of the sub-request.
Unwrapped(l) ==
    /\ l.pc = "done"
    /\ Answered(l, "passthrough")
    /\ unwrap(l.call).ret.ok
    /\ unwrap(l.call).ret.val # None
    /\ unwrap(unwrap(l.call).ret.val).found

\* The elements of the payload's children array (none without an array)
\* whose id is child_id.
OwnEntries(payload, child_id) ==
    IF payload.children = None THEN {}
    ELSE { k \in 1 .. Len(unwrap(payload.children)) :
             unwrap(payload.children)[k].id = child_id }

\* C34: the value a successful operation returns is, for a handle bound to a
\* sub-unit whose id the payload's children array lists, the first element
\* of that array with that id; for such a handle and a payload without a
\* children array or without that id, and for a handle not bound to a
\* sub-unit, it is the payload itself.  A response without the sub-request's
\* entry gives no value.
C34_OwnEntryElsePayload ==
    \A p \in Procs :
        LET l == loc[p]
        IN  /\ Unwrapped(l) =>
                  LET d == unwrap(l.device)
                      payload == unwrap(unwrap(l.call).ret.val)
                      own == IF d.child_id = None THEN {}
                             ELSE OwnEntries(payload, unwrap(d.child_id))
                  IN  IF own # {}
                      THEN l.result = Some(Ok(Some(unwrap(payload.children)[
                               CHOOSE k \in own : \A j \in own : k <= j])))
                      ELSE l.result = Some(Ok(Some(payload)))
            /\ (/\ l.pc = "done"
                /\ Answered(l, "passthrough")
                /\ unwrap(l.call).ret.ok
                /\ ~Unwrapped(l)) => l.result = Some(Ok(None))

\* C34 as stated: the value a handle bound to a sub-unit returns is always an
\* element of the children array with the handle's child id, never the
\* payload.
C34_NeverParentPayload ==
    \A p \in Procs :
        LET l == loc[p]
        IN  (Unwrapped(l) /\ unwrap(l.device).child_id # None) =>
              LET payload == unwrap(unwrap(l.call).ret.val)
              IN  /\ l.result # Some(Ok(Some(payload)))
                  /\ \E k \in OwnEntries(payload, unwrap(unwrap(l.device).child_id)) :
                        l.result = Some(Ok(Some(unwrap(payload.children)[k])))

\* C34's case: the outlet's handle got a payload listing outlet "9" ahead of
\* its own outlet "0", and returned its own entry.
C34_OwnEntryBehindAnother ==
    LET l == loc[1]
    IN  /\ Unwrapped(l)
        /\ unwrap(l.device).child_id = Some(<<"0">>)
        /\ unwrap(unwrap(l.call).ret.val).children
             = Some(<< Child(<<"9">>, <<"x">>), Child(<<"0">>, <<"a">>) >>)
        /\ l.result = Some(Ok(Some(Child(<<"0">>, <<"a">>))))

----------------------------------------------------------------------------
(* SpecToggle: power toggle on a complete session, over what the device    *)
(* may report as its state and every answer to the power command.          *)

\* What a device may answer to get_sysinfo: a relay state, a light state
\* beside a relay state, outlets with their states, an answer without the
\* entry asked for, no responseData, and the failures of a call.
StateReplies ==
    LET Answer(data) == Reply(TRUE, TRUE, 0, Some([responseData |-> Some(data)]))
        Reported == {None, Some(JsonInt(0)), Some(JsonInt(1)), Some(JsonInt(2)),
                     Some(JsonStr(<<"1">>))}
    IN  { Answer([ResponseData(TRUE, None) EXCEPT !.relay_state = v]) : v \in Reported }
        \cup { Answer([ResponseData(TRUE, None) EXCEPT
                         !.relay_state = Some(JsonInt(1)),
                         !.light_state = Some([on_off |-> v])]) : v \in Reported }
        \cup { Answer(ResponseData(TRUE, Some(<< [Child(i, <<"a">>) EXCEPT !.state = v] >>))) :
                 v \in Reported, i \in {<<"0">>, <<"9">>} }
        \cup { Answer([ResponseData(TRUE, None) EXCEPT !.found = FALSE]),
                Reply(TRUE, TRUE, 0, Some([responseData |-> None])) }
        \cup FaultReplies

ToggleNext ==
    \E p \in Procs :
        \/ LoadSession(p)
        \/ FetchDeviceList(p, ListedReplies(loc[p].cloud))
        \/ ResolveDevice(p)
        \/ ToggleCommand(p, StateReplies, PowerReplies)

SpecToggle == CommandInit /\ [][ToggleNext]_vars

\* The positions in l.sent of the power commands of a handle.
PowerCommands(l) ==
    { k \in 1 .. Len(l.sent) :
        /\ l.sent[k].op = "passthrough"
        /\ l.sent[k].sub_request_type \in {"set_relay_state", "transition_light_state"} }

\* The power command that switches the handle d on (1) or off (0).
IsPower(q, d, value) ==
    /\ q.sub_request_type = IF is_light(d.device_type) THEN "transition_light_state"
                            ELSE "set_relay_state"
    /\ q.request = Some(value)
    /\ q.token = d.token

\* C21: Device::toggle queries the power state first and acts on the answer:
\* one power-off command when the state read is on, one power-on command
\* when it is off, and a failure with no power command when the query fails
\* or reports no state; a power command is always the last request and
\* follows the state query.
C21_ToggleQueriesThenActs ==
    \A p \in Procs :
        LET l == loc[p]
        IN  l.op = Some("toggle") =>
              LET d == unwrap(l.device)
                  state == unwrap(l.call).ret
                  n == Len(l.sent)
              IN  /\ \A k \in PowerCommands(l) :
                        k = n /\ l.sent[k - 1].sub_request_type = "get_sysinfo"
                  /\ IF state = Ok(Some(TRUE))
                     THEN PowerCommands(l) = {n} /\ IsPower(l.sent[n], d, 0)
                     ELSE IF state = Ok(Some(FALSE))
                     THEN PowerCommands(l) = {n} /\ IsPower(l.sent[n], d, 1)
                     ELSE PowerCommands(l) = {} /\ ~unwrap(l.result).ok

\* C21's case: the outlet answered the state query without a state, and the
\* toggle failed after its query without a power command.
C21_StateNotReported ==
    LET l == loc[1]
    IN  /\ l.pc = "done"
        /\ l.op = Some("toggle")
        /\ is_some(unwrap(l.device).child_id)
        /\ unwrap(l.call).reply.status_ok
        /\ unwrap(l.call).ret = Ok(None)
        /\ Kind(unwrap(l.result)) = "Api"
        /\ PowerCommands(l) = {}

\* A finished power toggle that printed its report.
ToggleReported(l) == l.op = Some("toggle") /\ l.pc = "done" /\ l.printed # None

\* The "power" value it printed.
PrintedPower(l) == unwrap(l.printed)

\* C39: a power toggle that reports "off" sent a power-off command and one
\* that reports "on" sent a power-on command, whatever the device answered
\* to the handler's state query and to the state query inside Device::toggle.
C39_ReportMatchesCommand ==
    \A p \in Procs :
        LET l == loc[p]
        IN  ToggleReported(l) =>
              LET d == unwrap(l.device)
                  n == Len(l.sent)
              IN  /\ PowerCommands(l) = {n}
                  /\ PrintedPower(l) = "off" => IsPower(l.sent[n], d, 0)
                  /\ PrintedPower(l) = "on" => IsPower(l.sent[n], d, 1)

\* The same statement for the toggles whose two state queries were answered
\* alike.
C39_ReportMatchesCommandWhenStateUnchanged ==
    \A p \in Procs :
        LET l == loc[p]
        IN  (ToggleReported(l)
               /\ ((PrintedPower(l) = "off") <=> (unwrap(l.call).ret = Ok(Some(TRUE))))) =>
              LET d == unwrap(l.device)
                  n == Len(l.sent)
              IN  /\ PrintedPower(l) = "off" => IsPower(l.sent[n], d, 0)
                  /\ PrintedPower(l) = "on" => IsPower(l.sent[n], d, 1)

----------------------------------------------------------------------------
(* SpecExit: two invocations of run, the command dispatched returning any  *)
(* result a handler can return: success, or an error of any kind with any  *)
(* payload.                                                                 *)

\* What dispatch may return.
DispatchResults ==
    LET Messages == {EmptyStr, <<"m">>, <<"Auth token expired">>}
        Codes == {None, Some(0), Some(-1), Some(ERR_TOKEN_EXPIRED)}
    IN  {Ok("unit")}
        \cup { Err(Coded(k, m, c)) : k \in {"Auth", "TokenExpired", "Api"}, m \in Messages,
                                     c \in Codes }
        \cup { Err(MfaRequired(t, e)) : t \in {None, Some(<<"t">>)}, e \in {None, Some(<<"u">>)} }
        \cup { Err(DeviceNotFound(m, n)) : m \in Messages, n \in {<< >>, << <<"a">> >>} }
        \cup { Err([AppError(k) EXCEPT !.msg = m]) :
                 k \in {"DeviceOffline", "Keychain", "UnsupportedOperation", "InvalidInput"},
                 m \in Messages }
        \cup { Err(AppError(k)) : k \in {"NotAuthenticated", "Http", "Json", "Io"} }

ExitInit ==
    /\ store = EmptyStore
    /\ registry = [c \in CloudType |-> << >>]
    /\ issued = [c \in CloudType |-> 1]
    /\ loc = [p \in Procs |-> [Invocation("run", EmptyStr) EXCEPT !.pc = "dispatch"]]

\* dispatch returns and run maps its result.
Dispatch(p, results) ==
    /\ loc[p].pc = "dispatch"
    /\ \E r \in results : loc' = [loc EXCEPT ![p] = Finish(loc[p], r)]
    /\ UNCHANGED <<store, registry, issued>>

ExitNext == \E p \in Procs : Dispatch(p, DispatchResults)

SpecExit == ExitInit /\ [][ExitNext]_vars

\* The four families of error kinds, and success.
ExitClass(r) ==
    IF r.ok THEN "success"
    ELSE IF r.err.kind \in {"Auth", "MfaRequired", "TokenExpired", "NotAuthenticated"}
         THEN "authentication"
    ELSE IF r.err.kind \in {"DeviceNotFound", "DeviceOffline"} THEN r.err.kind
    ELSE "other"

\* C23: the exit code of run is 0 exactly on success, and any two
\* invocations exit with the same code exactly when their results are both a
\* success or errors of the same family (authentication kinds, DeviceNotFound,
\* DeviceOffline, every other kind), whatever the errors carry.
C23_ExitCodeByKind ==
    \A p, q \in Procs :
        (loc[p].pc = "done" /\ loc[q].pc = "done") =>
            LET rp == unwrap(loc[p].result)
                rq == unwrap(loc[q].result)
            IN  /\ loc[p].exit # None
                /\ unwrap(loc[p].exit) = 0 <=> rp.ok
                /\ ExitClass(rp) = ExitClass(rq) <=> loc[p].exit = loc[q].exit

\* C23's case: an expired token with its business code and a missing session
\* exit with the same non-zero code, which a missing device does not share.
C23_AuthenticationFamily ==
    /\ loc[1].pc = "done"
    /\ loc[2].pc = "done"
    /\ Kind(unwrap(loc[1].result)) = "TokenExpired"
    /\ unwrap(loc[1].result).err.error_code = Some(ERR_TOKEN_EXPIRED)
    /\ Kind(unwrap(loc[2].result)) = "NotAuthenticated"
    /\ loc[1].exit = loc[2].exit
    /\ loc[1].exit \notin {Some(0), Some(exit_code(DeviceNotFound(EmptyStr, << >>)))}

----------------------------------------------------------------------------
(* SpecKinds: discovery of one listed device whose model string ranges     *)
(* over the table's prefixes, cut short, extended and concatenated.        *)

\* Model strings: every prefix of a table entry followed by a suffix, two
\* table entries in a row, and the table entries in lower case.
ModelStrings ==
    LET Suffixes == {EmptyStr, <<"(","U","S",")">>, <<"0">>, <<"3">>, <<"5">>, <<"L","5">>}
        Prefix(i) == MODEL_MAP[i][1]
        Entries == 1 .. Len(MODEL_MAP)
        Cuts == { <<i, k>> \in Entries \X (0 .. 7) : k <= Len(Prefix(i)) }
    IN  { SubSeq(Prefix(c[1]), 1, c[2]) \o s : c \in Cuts, s \in Suffixes }
        \cup { Prefix(i) \o Prefix(j) : i, j \in Entries }
        \cup { to_lowercase(Prefix(i)) : i \in Entries }

KindsInit ==
    /\ store = FullStore
    /\ issued = [c \in CloudType |-> 1]
    /\ \E m \in ModelStrings :
         registry = [c \in CloudType |->
                        IF c = Kasa
                        THEN << [json    |-> DeviceJson(Some(<<"d">>), Some(<<"n">>), m),
                                 sysinfo |-> Sysinfo(Some(<< Child(<<"0">>, <<"c">>) >>))] >>
                        ELSE << >>]
    /\ \E cmd \in {"list", "device"} :
         loc = [p \in Procs |-> IF p = 1 THEN Invocation(cmd, <<"n">>) ELSE Off]

KindsNext ==
    \E p \in Procs :
        \/ LoadSession(p)
        \/ FetchDeviceList(p, ListedReplies(loc[p].cloud))
        \/ ResolveDevice(p)

SpecKinds == KindsInit /\ [][KindsNext]_vars

\* The table entries whose prefix the model string starts with.
MatchingEntries(m) == { i \in 1 .. Len(MODEL_MAP) : starts_with(m, MODEL_MAP[i][1]) }

\* The model string the cloud lists for the device.
ListedModel == model(unwrap(from_json(registry[Kasa][1].json)))

\* C24: the kind discovery gives the listed device is the kind bound to the
\* longest table prefix its model string starts with, and Unknown when it
\* starts with none.
C24_LongestPrefixKind ==
    \A p \in Procs :
        LET l == loc[p]
        IN  (l.pc # "off" /\ l.listed[Kasa] # None) =>
              LET hits == MatchingEntries(ListedModel)
              IN  /\ Len(l.devices) >= 1
                  /\ IF hits = {} THEN l.devices[1].dtype = "Unknown"
                     ELSE \E i \in hits :
                            /\ \A j \in hits : Len(MODEL_MAP[j][1]) <= Len(MODEL_MAP[i][1])
                            /\ l.devices[1].dtype = MODEL_MAP[i][2]

\* C24's case: the model string EP400 starts with the prefix EP40 and with no
\* other, and the device was classified EP40.
C24_PrefixWithSuffix ==
    /\ ListedModel = <<"E","P","4","0","0">>
    /\ MatchingEntries(ListedModel) # {}
    /\ loc[1].listed[Kasa] # None
    /\ loc[1].devices[1].dtype = "EP40"

\* C25: a kind has sub-units exactly when its child kind is not Unknown, and
\* then the child kind is a sub-unit kind; discovery sends the sub-unit
\* enumeration query for the listed device exactly when its kind has
\* sub-units, and a device of any other kind contributes its own entry only.
C25_ChildrenOnlyOfComposites ==
    /\ \A k \in DeviceTypes :
          /\ has_children(k) <=> child_type(k) # "Unknown"
          /\ has_children(k) => is_child(child_type(k)) /\ ~has_children(child_type(k))
    /\ \A p \in Procs :
          LET l == loc[p]
          IN  (l.pc # "off" /\ l.listed[Kasa] # None) =>
                LET k == l.devices[1].dtype
                IN  /\ k \in DeviceTypes
                    /\ IF has_children(k)
                       THEN /\ Len(Sent(l, "get_sysinfo", Kasa)) = 1
                            /\ Len(l.devices) = 2
                            /\ l.devices[2].dtype = child_type(k)
                       ELSE /\ Sent(l, "get_sysinfo", Kasa) = << >>
                            /\ Len(l.devices) = 1

\* C25's case: a plug that would answer the enumeration query with an outlet
\* was listed, and resolution collected it without the query.
C25_PlugNotEnumerated ==
    LET l == loc[1]
    IN  /\ l.cmd = "device"
        /\ l.listed[Kasa] # None
        /\ l.devices[1].dtype = "HS110"
        /\ child_type("HS110") = "Unknown"
        /\ Len(l.devices) = 1
        /\ l.sent = << Request("getDeviceList", Kasa, <<1>>) >>

----------------------------------------------------------------------------
(* SpecSigning: two calls of get_signing_headers, each on its own body,    *)
(* path and ecosystem, each drawing its nonce.                              *)

\* The values Uuid::new_v4().to_string() may return.
Nonces == {<<"n1">>, <<"n2">>, <<"n3">>}

\* Serialized request bodies; one reads like a nonce.
Bodies == {<<"{}">>, <<"{a:1}">>, <<"n1">>}

Paths == {<<"/">>, <<"/api/v2/account/login">>}

\* A call of get_signing_headers before it runs.
SigningCall(body_json, url_path, cloud_type) ==
    [pc |-> "sign", body_json |-> body_json, url_path |-> url_path, cloud_type |-> cloud_type,
     nonce |-> None, headers |-> None]

SigningInit ==
    /\ store = EmptyStore
    /\ registry = [c \in CloudType |-> << >>]
    /\ issued = [c \in CloudType |-> 1]
    /\ loc \in [Procs -> { SigningCall(b, u, c) : b \in Bodies, u \in Paths, c \in CloudType }]

\* One call of get_signing_headers: the nonce is drawn, the headers computed.
Sign(p, nonces) ==
    /\ loc[p].pc = "sign"
    /\ \E nonce \in nonces :
         LET l == loc[p]
         IN  loc' = [loc EXCEPT ![p] =
                        [l EXCEPT !.pc = "signed",
                                  !.nonce = Some(nonce),
                                  !.headers = Some(get_signing_headers(l.body_json, l.url_path,
                                                                       l.cloud_type, nonce))]]
    /\ UNCHANGED <<store, registry, issued>>

SigningNext == \E p \in Procs : Sign(p, Nonces)

SpecSigning == SigningInit /\ [][SigningNext]_vars

\* Two calls were made on the same body, path and ecosystem.
SameInputs(p, q) ==
    /\ loc[p].pc = "signed"
    /\ loc[q].pc = "signed"
    /\ loc[p].body_json = loc[q].body_json
    /\ loc[p].url_path = loc[q].url_path
    /\ loc[p].cloud_type = loc[q].cloud_type

----------------------------------------------------------------------------
(* SpecRefresh: one call of refresh_auth or of refresh_tapo_auth on the     *)
(* session loaded from any store a login can leave, against every answer   *)
(* of the cloud and every failing store write.                             *)

\* get_auth_context, the session kept for the refresh of ecosystem loc[p].cloud.
LoadForRefresh(p) ==
    /\ loc[p].pc = "load"
    /\ LET l == [loc[p] EXCEPT !.before = get_tokens(store)]
           r == get_auth_context(store)
       IN  loc' = [loc EXCEPT ![p] =
                      IF r.ok THEN [l EXCEPT !.auth = Some(r.val), !.pc = "refresh"]
                      ELSE Finish(l, r)]
    /\ UNCHANGED <<store, registry, issued>>

\* refresh_auth(&mut auth) or refresh_tapo_auth(&mut auth), answered by one of
\* replies, with store_tokens' n-th write failing (if any).
RefreshCall(p, replies, writes) ==
    /\ loc[p].pc = "refresh"
    /\ \E reply \in replies, n \in writes :
         LET l == loc[p]
             c == l.cloud
             f == IF c = Kasa THEN refresh_auth(unwrap(l.auth), store, reply, n)
                  ELSE refresh_tapo_auth(unwrap(l.auth), store, reply, n)
             answered == f.reqs # << >> /\ refresh_token(reply, EmptyStr).ok
         IN  /\ loc' = [loc EXCEPT ![p] =
                          Finish([l EXCEPT !.auth = Some(f.auth),
                                           !.sent = @ \o f.reqs,
                                           !.call = IF f.reqs = << >> THEN @
                                                    ELSE Some(Call("refresh_token", c, reply,
                                                                   refresh_token(reply, EmptyStr)))],
                                 f.result)]
             /\ store' = f.store
             /\ issued' = IF answered THEN [issued EXCEPT ![c] = @ + 1] ELSE issued
    /\ UNCHANGED registry

RefreshInit ==
    /\ store \in SessionStores
    /\ registry = [c \in CloudType |-> << >>]
    /\ issued = [c \in CloudType |-> 1]
    /\ \E c \in CloudType :
         loc = [p \in Procs |->
                  IF p = 1 THEN [Invocation("refresh", EmptyStr) EXCEPT !.cloud = c] ELSE Off]

RefreshNext ==
    \E p \in Procs :
        \/ LoadForRefresh(p)
        \/ RefreshCall(p, RefreshedReplies(loc[p].cloud) \cup FaultReplies, FailingWrite)

SpecRefresh == RefreshInit /\ [][RefreshNext]_vars

\* The store lacks what a refresh of ecosystem c needs.
MissingPrecondition(st, c) ==
    IF c = Kasa THEN st["refresh_token"] = None
    ELSE st["tapo_refresh_token"] = None \/ st["tapo_regional_url"] = None

\* C31: a refresh of the primary session called while no refresh token is
\* stored, and a refresh of the secondary session called while no secondary
\* refresh token or no secondary regional URL is stored, returns
\* NotAuthenticated, sends no request, and leaves store and session alone.
C31_RefreshPreconditions ==
    [][ \A p \in Procs :
          (/\ loc[p].pc = "refresh"
           /\ loc'[p] # loc[p]
           /\ MissingPrecondition(store, loc[p].cloud))
          => /\ loc'[p].result = Some(Err(AppError("NotAuthenticated")))
             /\ loc'[p].sent = << >>
             /\ loc'[p].call = None
             /\ loc'[p].auth = loc[p].auth
             /\ store' = store
             /\ issued' = issued ]_vars

\* C31's case: the store holds a secondary token and refresh token but no
\* secondary regional URL, and the secondary refresh ended NotAuthenticated
\* with no request sent.
C31_TapoRefreshWithoutUrl ==
    LET l == loc[1]
    IN  /\ l.pc = "done"
        /\ l.cmd = "refresh"
        /\ l.cloud = Tapo
        /\ l.auth # None
        /\ store["tapo_token"] # None
        /\ store["tapo_refresh_token"] # None
        /\ store["tapo_regional_url"] = None
        /\ l.result = Some(Err(AppError("NotAuthenticated")))
        /\ l.sent = << >>

\* The fields of a session or stored record that a refresh of ecosystem c
\* has no business with: the other ecosystem's three, username, terminal id.
FrameOf(t, c) ==
    IF c = Kasa
    THEN << t.tapo_token, t.tapo_refresh_token, t.tapo_regional_url, t.username, t.term_id >>
    ELSE << t.token, t.refresh_token, t.regional_url, t.username, t.term_id >>

----------------------------------------------------------------------------
(* SpecRace: two invocations of devices list run concurrently against one  *)
(* store.  Every refresh reply is complete and no store write fails, so    *)
(* what is left is the interleaving of the invocations' steps.             *)

ExpiredReply == Reply(TRUE, TRUE, ERR_TOKEN_EXPIRED, None)

RaceInit ==
    /\ store = FullStore
    /\ registry \in SmallRegistries
    /\ issued = [c \in CloudType |-> 1]
    /\ loc = [p \in Procs |-> Invocation("list", EmptyStr)]

RaceFetch(p) == FetchDeviceList(p, ListedReplies(loc[p].cloud) \cup {ExpiredReply})

RaceRefresh(p) == RefreshSession(p, CompleteRefreshedReplies(loc[p].cloud), {0})

RaceRetry(p) == RetryDeviceList(p, ListedReplies(loc[p].cloud) \cup {ExpiredReply})

RaceNext ==
    \E p \in Procs :
        \/ LoadSession(p)
        \/ RaceFetch(p)
        \/ RaceRefresh(p)
        \/ RaceRetry(p)

SpecRace == RaceInit /\ [][RaceNext]_vars

\* The store key that holds ecosystem c's token.
TokenKey(c) == IF c = Kasa THEN "token" ELSE "tapo_token"

\* C4: once two concurrent invocations are both over, the stored record
\* holds, for each ecosystem, the token the cloud issued last.
C4_LatestTokensPersisted ==
    (\A p \in Procs : loc[p].pc = "done")
        => \A c \in CloudType : store[TokenKey(c)] = Some(<<issued[c]>>)

----------------------------------------------------------------------------
(* SpecResolve: one invocation with a valid session and a cloud that       *)
(* answers every device-list fetch, over the device lists that exercise    *)
(* the resolution rules and the deduplication.                             *)

Garbled ==
    [json    |-> [DeviceJson(Some(<<"a">>), Some(<<"a">>), <<"H","S","1","0","0">>)
                      EXCEPT !.valid = FALSE],
     sysinfo |-> Unreachable]

Plugs == { Plain(i, a) : i \in {<<"a">>, <<"b">>}, a \in {<<"a">>, <<"A">>, <<"a","b">>} }

Strips ==
    { Strip(<<"b">>, <<"B","a">>, sysinfo) :
        sysinfo \in { Unreachable,
                      Sysinfo(Some(<< Child(<<"0">>, EmptyStr) >>)),
                      Sysinfo(Some(<< Child(<<"0">>, <<"a">>) >>)) } }

MaxDevices == 2

Queries == {<<"a">>, <<"b">>, <<"A">>}

ResolveInit ==
    /\ store = FullStore
    /\ registry \in Registries(Plugs \cup Strips \cup {Garbled}, MaxDevices)
    /\ issued = [c \in CloudType |-> 1]
    /\ \E cmd \in {"list", "device"}, query \in Queries :
         loc = [p \in Procs |-> IF p = 1 THEN Invocation(cmd, query) ELSE Off]

ResolveFetch(p) == FetchDeviceList(p, ListedReplies(loc[p].cloud))

ResolveNext ==
    \E p \in Procs :
        \/ LoadSession(p)
        \/ ResolveFetch(p)
        \/ ResolveDevice(p)

SpecResolve == ResolveInit /\ [][ResolveNext]_vars

\* Invocation state l is past the resolution rules of resolve_device.
Resolved(l) ==
    /\ l.cmd = "device"
    /\ l.pc \in {"command", "done"}
    /\ l.outcome[Kasa] # None
    /\ unwrap(l.outcome[Kasa]).ok

\* Entry e matches the query under the rule named.
Matches(rule, e, name_or_id) ==
    CASE rule = "exact_alias" -> exact_alias(e, name_or_id)
      [] rule = "exact_id"    -> exact_id(e, name_or_id)
      [] rule = "ci_alias"    -> ci_alias(e, name_or_id)
      [] OTHER                -> partial_alias(e, name_or_id)

Has(l, rule) == \E i \in 1..Len(l.devices) : Matches(rule, l.devices[i], l.query)

HandleOf(l, e) == Some(build_device(e, unwrap(l.auth)).val)

\* The handle l holds is the one of a catalog entry matched under the rule.
ReturnedBy(l, rule) ==
    \E i \in 1..Len(l.devices) :
        Matches(rule, l.devices[i], l.query) /\ l.device = HandleOf(l, l.devices[i])

\* C6: when one catalog entry's effective alias equals the query and some
\* entry's device id equals the query, the handle returned is that of an
\* entry matched by alias, wherever the two stand in the catalog.
C6_AliasBeatsId ==
    \A p \in Procs :
        (Resolved(loc[p]) /\ Has(loc[p], "exact_alias") /\ Has(loc[p], "exact_id"))
            => ReturnedBy(loc[p], "exact_alias")

\* C6's case: an entry matched by id stands before a different entry matched
\* by alias, and the handle is the latter's.
C6_IdEntryListedFirst ==
    LET l == loc[1]
    IN  /\ Resolved(l)
        /\ \E i, j \in 1..Len(l.devices) :
              /\ i < j
              /\ exact_id(l.devices[i], l.query)
              /\ ~exact_alias(l.devices[i], l.query)
              /\ exact_alias(l.devices[j], l.query)
              /\ l.device = HandleOf(l, l.devices[j])
              /\ l.device # HandleOf(l, l.devices[i])

\* C7: resolution succeeds with an entry matched by the first of the rules
\* exact alias, device id, case-insensitive alias that matches any entry;
\* a match under one of these three is never answered with an error.
C7_FirstMatchingRuleWins ==
    \A p \in Procs :
        LET l == loc[p]
        IN  Resolved(l) =>
              IF Has(l, "exact_alias") THEN ReturnedBy(l, "exact_alias")
              ELSE IF Has(l, "exact_id") THEN ReturnedBy(l, "exact_id")
              ELSE IF Has(l, "ci_alias") THEN ReturnedBy(l, "ci_alias")
              ELSE TRUE

\* C7's case: only the case-insensitive rule has an exact match while two
\* entries match as substrings; the handle is the case-insensitive match's.
C7_CaseInsensitiveAmongPartials ==
    LET l == loc[1]
    IN  /\ Resolved(l)
        /\ ~Has(l, "exact_alias")
        /\ ~Has(l, "exact_id")
        /\ ReturnedBy(l, "ci_alias")
        /\ Len(SelectSeq(l.devices, LAMBDA e : partial_alias(e, l.query))) >= 2

\* C8: when no entry matches under the first three rules, resolution returns
\* the single substring match if there is exactly one, DeviceNotFound for the
\* query if there is none, and otherwise a DeviceNotFound that names the
\* effective alias of every substring match.
C8_AmbiguityLaw ==
    \A p \in Procs :
        LET l  == loc[p]
            ms == {i \in 1..Len(l.devices) : partial_alias(l.devices[i], l.query)}
        IN  (Resolved(l) /\ ~Has(l, "exact_alias") /\ ~Has(l, "exact_id") /\ ~Has(l, "ci_alias"))
            => CASE Cardinality(ms) = 1 ->
                      \E i \in ms : l.device = HandleOf(l, l.devices[i])
                 [] Cardinality(ms) = 0 ->
                      /\ l.device = None
                      /\ l.result = Some(Err(DeviceNotFound(l.query, << >>)))
                 [] OTHER ->
                      /\ l.device = None
                      /\ l.result # None
                      /\ ~unwrap(l.result).ok
                      /\ unwrap(l.result).err.kind = "DeviceNotFound"
                      /\ Len(unwrap(l.result).err.names) = Cardinality(ms)
                      /\ \A i \in ms : \E k \in 1..Len(unwrap(l.result).err.names) :
                            unwrap(l.result).err.names[k] = effective_alias(l.devices[i])

\* C8's case: two entries with different aliases match as substrings only,
\* and the error names both.
C8_TwoPartialMatches ==
    LET l == loc[1]
    IN  /\ Resolved(l)
        /\ l.result # None
        /\ ~unwrap(l.result).ok
        /\ Len(unwrap(l.result).err.names) = 2
        /\ unwrap(l.result).err.names[1] # unwrap(l.result).err.names[2]

\* C9: when the query is the device id of a composite device in the catalog
\* and equals no effective alias, the handle returned has no child id, the
\* composite device's kind and that device id.
C9_CompositeIdGivesParent ==
    \A p \in Procs :
        LET l == loc[p]
        IN  (Resolved(l) /\ ~Has(l, "exact_alias")) =>
              \A i \in 1..Len(l.devices) :
                 (has_children(l.devices[i].dtype) /\ exact_id(l.devices[i], l.query))
                    => /\ l.device # None
                       /\ unwrap(l.device).child_id = None
                       /\ unwrap(l.device).device_type = l.devices[i].dtype
                       /\ unwrap(l.device).device_id = l.query

\* C9's case: the composite device named by id has a sub-unit entry, and the
\* handle is the parent's.
C9_ParentAmongSubUnits ==
    LET l == loc[1]
    IN  /\ Resolved(l)
        /\ ~Has(l, "exact_alias")
        /\ \E i \in 1..Len(l.devices) :
              /\ exact_id(l.devices[i], l.query)
              /\ l.devices[i].child_id # None
        /\ l.device # None
        /\ unwrap(l.device).child_id = None
        /\ has_children(unwrap(l.device).device_type)

\* The place in ecosystem c's device list of the first record with device id x.
ListPosition(c, x) ==
    CHOOSE k \in 1 .. Len(registry[c]) :
        /\ from_json(registry[c][k].json) # None
        /\ id(unwrap(from_json(registry[c][k].json))) = x
        /\ \A h \in 1 .. k - 1 :
              from_json(registry[c][h].json) = None
              \/ id(unwrap(from_json(registry[c][h].json))) # x

\* The catalog of l is in catalog order: primary entries before secondary
\* ones, devices of one ecosystem as the cloud listed them, the sub-units of
\* a composite device right after it.
InCatalogOrder(l) ==
    \A i, j \in 1 .. Len(l.devices) :
        i < j =>
            LET a == l.devices[i]
                b == l.devices[j]
            IN  /\ a.info.cloud_type = Some(Tapo) => b.info.cloud_type = Some(Tapo)
                /\ (a.info.cloud_type = b.info.cloud_type /\ id(a.info) # id(b.info))
                      => ListPosition(unwrap(a.info.cloud_type), id(a.info))
                           < ListPosition(unwrap(a.info.cloud_type), id(b.info))
                /\ id(a.info) = id(b.info) =>
                      /\ b.child_id # None
                      /\ \A k \in i .. j : id(l.devices[k].info) = id(a.info)
                      /\ l.devices[CHOOSE k \in 1 .. i : \A h \in k .. i :
                                      id(l.devices[h].info) = id(a.info)
                                      /\ (k = 1 \/ id(l.devices[k - 1].info) # id(a.info))
                                   ].child_id = None

\* The first of the three first-match rules that some entry of l satisfies.
FirstRule(l) ==
    IF Has(l, "exact_alias") THEN "exact_alias"
    ELSE IF Has(l, "exact_id") THEN "exact_id"
    ELSE IF Has(l, "ci_alias") THEN "ci_alias"
    ELSE "none"

\* C29: the catalog is in catalog order, and when entries match the query
\* under the exact-alias, the device-id or the case-insensitive rule, the
\* handle returned is that of the earliest entry matching under the first
\* such rule, however many entries match it.
C29_EarliestEntryWins ==
    \A p \in Procs :
        LET l == loc[p]
        IN  Resolved(l) =>
              /\ InCatalogOrder(l)
              /\ FirstRule(l) # "none" =>
                    \E i \in 1 .. Len(l.devices) :
                        /\ Matches(FirstRule(l), l.devices[i], l.query)
                        /\ \A j \in 1 .. i - 1 : ~Matches(FirstRule(l), l.devices[j], l.query)
                        /\ l.device = HandleOf(l, l.devices[i])

\* C29's case: a primary and a secondary device carry the alias asked for,
\* and the handle is the primary one's, which differs from the other's.
C29_DuplicateAliasAcrossClouds ==
    LET l == loc[1]
    IN  /\ Resolved(l)
        /\ Len(l.devices) = 2
        /\ exact_alias(l.devices[1], l.query)
        /\ exact_alias(l.devices[2], l.query)
        /\ l.devices[1].info.cloud_type = Some(Kasa)
        /\ l.devices[2].info.cloud_type = Some(Tapo)
        /\ HandleOf(l, l.devices[1]) # HandleOf(l, l.devices[2])
        /\ l.device = HandleOf(l, l.devices[1])

\* The device ids of the records of device_list that deserialize.
ListedIds(device_list) ==
    { id(unwrap(from_json(device_list[i].json))) :
        i \in {k \in 1..Len(device_list) : from_json(device_list[k].json) # None} }

\* The device ids both ecosystems' fetches returned to invocation state l.
SharedIds(l) ==
    IF l.listed[Kasa] = None \/ l.listed[Tapo] = None THEN {}
    ELSE ListedIds(unwrap(l.listed[Kasa])) \cap ListedIds(unwrap(l.listed[Tapo]))

EntriesOf(l, x) == {i \in 1..Len(l.devices) : id(l.devices[i].info) = x}

\* C10 (as stated): a device id returned by both ecosystems has exactly one
\* catalog entry, and it comes from the primary ecosystem.
C10_ExactlyOneEntry ==
    \A p \in Procs : \A x \in SharedIds(loc[p]) :
        /\ Cardinality(EntriesOf(loc[p], x)) = 1
        /\ \A i \in EntriesOf(loc[p], x) : loc[p].devices[i].info.cloud_type = Some(Kasa)

\* C10 (amended): a device id returned by both ecosystems in records that
\* deserialize has at least one catalog entry, and every catalog entry with
\* that id (the device's and its sub-units') comes from the primary
\* ecosystem.
C10_OnlyPrimaryEntries ==
    \A p \in Procs : \A x \in SharedIds(loc[p]) :
        /\ EntriesOf(loc[p], x) # {}
        /\ \A i \in EntriesOf(loc[p], x) : loc[p].devices[i].info.cloud_type = Some(Kasa)

\* C10's case: both ecosystems returned the id of a composite device, and the
\* catalog holds the primary's entry and its sub-unit's.
C10_SharedCompositeId ==
    \E x \in SharedIds(loc[1]) :
        /\ Cardinality(EntriesOf(loc[1], x)) >= 2
        /\ \A i \in EntriesOf(loc[1], x) : loc[1].devices[i].info.cloud_type = Some(Kasa)

----------------------------------------------------------------------------
(* SpecCatalog: devices list (invocation 1) and a device command           *)
(* (invocation 2) build their catalogs from one session and one cloud,     *)
(* whose lists hold plugs with and without an identifier and power strips  *)
(* that answer the sub-unit query with outlets or with a failure.          *)

\* A plug whose record has no deviceId.
Anonymous(alias) ==
    [json |-> DeviceJson(None, Some(alias), <<"H","S","1","0","0">>), sysinfo |-> Unreachable]

\* What a strip may answer instead of its outlets: nothing (transport), a
\* business code, the token-expired code, a payload that does not decode.
FailedEnumerations ==
    << Unreachable,
       Reply(TRUE, TRUE, -1, None),
       Reply(TRUE, TRUE, ERR_TOKEN_EXPIRED, None),
       Reply(TRUE, TRUE, 0, Some([responseData |-> Some(ResponseData(FALSE, None))])) >>

CatalogDevices ==
    { Plain(<<"a">>, <<"a">>), Anonymous(<<"n">>), Anonymous(<<"m">>) }
    \cup { Strip(<<ToString(k)>>, <<"B","a">>, FailedEnumerations[k]) :
             k \in 1 .. Len(FailedEnumerations) }
    \cup { Strip(<<"b">>, <<"B">>, Sysinfo(Some(<< >>))),
           Strip(<<"c">>, <<"B">>, Sysinfo(Some(<< Child(<<"0">>, EmptyStr),
                                                  Child(<<"1">>, <<"a">>) >>))) }

CatalogInit ==
    /\ store = FullStore
    /\ registry \in Registries(CatalogDevices, MaxDevices)
    /\ issued = [c \in CloudType |-> 1]
    /\ loc = [p \in Procs |-> IF p = 1 THEN Invocation("list", EmptyStr)
                               ELSE Invocation("device", <<"m">>)]

CatalogNext ==
    \E p \in Procs :
        \/ LoadSession(p)
        \/ FetchDeviceList(p, ListedReplies(loc[p].cloud))
        \/ ResolveDevice(p)

SpecCatalog == CatalogInit /\ [][CatalogNext]_vars

\* The record that ecosystem c lists under the identifier x.
ListedRecord(c, x) ==
    registry[c][CHOOSE i \in 1 .. Len(registry[c]) :
                  from_json(registry[c][i].json) # None
                  /\ id(unwrap(from_json(registry[c][i].json))) = x]

\* The entries i of catalog l.devices that stand for a composite device whose
\* sub-unit query failed.
FailedParents(l) ==
    { i \in 1 .. Len(l.devices) :
        /\ has_children(l.devices[i].dtype)
        /\ ~get_children(ListedRecord(unwrap(l.devices[i].info.cloud_type),
                                      id(l.devices[i].info)).sysinfo).ok }

\* The identifiers of the records of a device list that deserialize.
ValidIds(device_list) ==
    { id(unwrap(from_json(device_list[i].json))) :
        i \in { j \in 1 .. Len(device_list) : from_json(device_list[j].json) # None } }

\* C35: a composite device whose sub-unit query failed has its parent entry
\* in the catalog and no sub-unit entry behind it; the discovery of its
\* ecosystem still ends without an error, and every record of the list that
\* deserializes, before and after it, has its identifier in the catalog.
C35_EnumerationFailureKeepsParent ==
    \A p \in Procs :
        LET l == loc[p]
        IN  /\ \A c \in CloudType :
                  l.listed[c] # None =>
                    /\ l.outcome[c] = Some(Ok("unit"))
                    /\ ValidIds(unwrap(l.listed[c])) \subseteq ids_of(l.devices)
                    /\ \A i \in 1 .. Len(unwrap(l.listed[c])) :
                          LET rec == unwrap(l.listed[c])[i]
                          IN  (/\ from_json(rec.json) # None
                               /\ has_children(from_model(model(unwrap(from_json(rec.json)))))
                               /\ ~get_children(rec.sysinfo).ok)
                              => \E k \in FailedParents(l) :
                                   id(l.devices[k].info) = id(unwrap(from_json(rec.json)))
            /\ \A i \in FailedParents(l) :
                  /\ l.devices[i].child_alias = None
                  /\ l.cmd = "device" => l.devices[i].child_id = None
                  /\ i < Len(l.devices) => ~is_child(l.devices[i + 1].dtype)

\* C35's case: the primary list holds a strip whose sub-unit query hit an
\* expired token and then a plug; the catalog of the device command is the
\* strip's parent entry and the plug's entry.
C35_StripFailsPlugFollows ==
    LET l == loc[2]
    IN  /\ l.listed[Kasa] # None
        /\ Len(registry[Kasa]) = 2
        /\ registry[Kasa][1] = Strip(<<"3">>, <<"B","a">>, FailedEnumerations[3])
        /\ registry[Kasa][2] = Plain(<<"a">>, <<"a">>)
        /\ registry[Tapo] = << >>
        /\ Len(l.devices) = 2
        /\ FailedParents(l) = {1}
        /\ l.devices[2].dtype = "HS100"

\* The sub-units the device behind parent entry e answered with: none when
\* its query failed.
Enumerated(e) ==
    LET ch == get_children(ListedRecord(unwrap(e.info.cloud_type), id(e.info)).sysinfo)
    IN  IF ch.ok THEN ch.val ELSE << >>

Listing(l) ==
    [i \in 1 .. Len(l.devices) |->
        << id(l.devices[i].info), l.devices[i].info.cloud_type, l.devices[i].dtype,
           effective_alias(l.devices[i]) >>]

\* Invocation state l has built its whole catalog, from both ecosystems.
Catalogued(l) ==
    /\ l.pc \in {"resolve", "command", "done"}
    /\ l.outcome[Kasa] = Some(Ok("unit"))
    /\ l.outcome[Tapo] = Some(Ok("unit"))

\* C37: the catalog that devices list shows and the catalog a device command
\* searches, built from the same session and the same device lists, hold the
\* same entries in the same order.
C37_CatalogsAgree ==
    (Catalogued(loc[1]) /\ Catalogued(loc[2])) => Listing(loc[1]) = Listing(loc[2])

----------------------------------------------------------------------------
(* The ecosystem of a handle's requests (Spec)                              *)

\* What a passthrough request to ecosystem c looks like: the session's token
\* for c, c's path and body, and c's access key and signing secret in the
\* headers that get_signing_headers computes, whatever nonce it draws.
ScopedTo(q, c, auth) ==
    /\ q.cloud = c
    /\ q.token = IF c = Kasa THEN auth.token ELSE unwrap(auth.tapo_token)
    /\ q.url_path = IF c = Kasa THEN <<"/">> ELSE <<"/api/v2/common/passthrough">>
    /\ q.body.top = IF c = Kasa THEN {"method", "params"} ELSE {"deviceId", "requestData"}
    /\ \A nonce \in Nonces :
          LET h == get_signing_headers(<<"{}">>, q.url_path, q.signed_as, nonce).x_authorization
          IN  /\ h.AccessKey = IF c = Kasa THEN <<"e37525375f8845999bcc56d5e6faa76d">>
                                ELSE <<"4d11b6b9d5ea4d19a829adbb9714b057">>
              /\ h.Signature.key = IF c = Kasa THEN <<"314bc6700b3140ca80bc655e527cb062">>
                                    ELSE <<"6ed7d97f3e73467f8a5bab90b577ba4c">>

\* C38: every command sent through a resolved handle is scoped to the one
\* ecosystem whose device list the resolved entry came from (the primary one
\* when both list the identifier): that ecosystem's session token, path,
\* body shape, access key and signing secret, and none of the other's.
C38_CommandsScopedToDiscoveryCloud ==
    \A p \in Procs :
        LET l == loc[p]
        IN  l.device # None =>
              LET e == resolve_entry(l.devices, l.query).val
                  c == unwrap(e.info.cloud_type)
                  other == IF c = Kasa THEN Tapo ELSE Kasa
              IN  /\ l.listed[c] # None
                  /\ id(e.info) \in ValidIds(unwrap(l.listed[c]))
                  /\ c = Tapo => id(e.info) \notin ValidIds(unwrap(l.listed[Kasa]))
                  /\ \A k \in Passthroughs(l) :
                        /\ ScopedTo(l.sent[k], c, unwrap(l.auth))
                        /\ l.sent[k].cloud # other
                        /\ l.sent[k].url_path # passthrough_path(other)
                        /\ l.sent[k].signed_as # other

\* C38's case: the primary token was refreshed to 2 during discovery, the
\* device was found in the secondary list, and its power command went to the
\* secondary ecosystem with the secondary token 1.
C38_SecondaryDeviceAfterPrimaryRefresh ==
    LET l == loc[1]
    IN  /\ l.pc = "done"
        /\ l.device # None
        /\ unwrap(l.auth).token = <<2>>
        /\ unwrap(l.device).info.cloud_type = Some(Tapo)
        /\ Passthroughs(l) # {}
        /\ \A k \in Passthroughs(l) :
              /\ l.sent[k].token = <<1>>
              /\ l.sent[k].url_path = <<"/api/v2/common/passthrough">>

----------------------------------------------------------------------------
(* SpecLogin: one invocation of login (cli/auth.rs handle_login: the        *)
(* primary login, MFA where asked, the best-effort secondary login, the     *)
(* write of the session) or of logout, against every answer of the cloud.   *)

\* CloudType::host, the host a new TPLinkApi is configured with.
cloud_host(c) == IF c = Kasa THEN <<"n">> ELSE <<"n", "i">>

LoginRequest(op, c, url) == [op |-> op, cloud |-> c, host |-> url]

LoginInvocation(cmd, username, password) ==
    [pc          |-> IF cmd = "login" THEN "region" ELSE "logout",
     cmd         |-> cmd,
     cloud       |-> Kasa,
     username    |-> username,
     password    |-> password,
     host        |-> [c \in CloudType |-> cloud_host(c)],
     sent        |-> << >>,
     call        |-> None,
     login_ret   |-> [c \in CloudType |-> None],
     kasa_result |-> None,
     tapo_result |-> None,
     result      |-> None]

\* login or verify_mfa of the current API returned the error r: the primary
\* one ends the command, the secondary one leaves no secondary session.
LoginFailed(l, r) ==
    IF l.cloud = Kasa THEN [l EXCEPT !.pc = "done", !.result = Some(r)]
    ELSE [l EXCEPT !.tapo_result = None, !.pc = "store"]

\* login or verify_mfa of the current API returned the LoginResult res.
LoginSucceeded(l, res) ==
    IF l.cloud = Kasa
    THEN [l EXCEPT !.kasa_result = Some(res), !.cloud = Tapo, !.pc = "region"]
    ELSE [l EXCEPT !.tapo_result = Some(res), !.pc = "store"]

\* TPLinkApi::login up to the answer of get_regional_url: the checks of the
\* credentials, the account-status request, the rebinding of the host.
DiscoverRegion(p, replies) ==
    /\ loc[p].pc = "region"
    /\ \E reply \in replies :
         LET l  == loc[p]
             c  == l.cloud
             v  == login_validate(l.username, l.password)
             r  == get_regional_url(reply, l.host[c])
             l1 == [l EXCEPT !.sent = Append(@, LoginRequest("getAccountStatus", c, l.host[c])),
                             !.call = Some(Call("get_regional_url", c, reply, r))]
         IN  loc' = [loc EXCEPT ![p] =
                        IF ~v.ok THEN LoginFailed([l EXCEPT !.login_ret[c] = Some(v)], v)
                        ELSE IF ~r.ok THEN LoginFailed([l1 EXCEPT !.login_ret[c] = Some(r)], r)
                        ELSE [l1 EXCEPT !.host[c] = r.val, !.pc = "login"]]
    /\ UNCHANGED <<store, registry, issued>>

\* TPLinkApi::login from the login request on, and the match on its result in
\* handle_login.
LoginCall(p, replies) ==
    /\ loc[p].pc = "login"
    /\ \E reply \in replies :
         LET l  == loc[p]
             c  == l.cloud
             r  == login_response(reply, l.username, l.host[c])
             l1 == [l EXCEPT !.sent = Append(@, LoginRequest("login", c, l.host[c])),
                             !.call = Some(Call("login", c, reply, r)),
                             !.login_ret[c] = Some(r)]
         IN  loc' = [loc EXCEPT ![p] =
                        IF r.ok THEN LoginSucceeded(l1, r.val)
                        ELSE IF r.err.kind = "MfaRequired" THEN [l1 EXCEPT !.pc = "mfa"]
                        ELSE LoginFailed(l1, r)]
    /\ UNCHANGED <<store, registry, issued>>

\* verify_mfa with the code the user typed.
VerifyMfa(p, replies) ==
    /\ loc[p].pc = "mfa"
    /\ \E reply \in replies :
         LET l  == loc[p]
             c  == l.cloud
             r  == verify_mfa(reply, l.host[c])
             l1 == [l EXCEPT !.sent = Append(@, LoginRequest("mfaLogin", c, l.host[c])),
                             !.call = Some(Call("verify_mfa", c, reply, r))]
         IN  loc' = [loc EXCEPT ![p] =
                        IF r.ok THEN LoginSucceeded(l1, r.val) ELSE LoginFailed(l1, r)]
    /\ UNCHANGED <<store, registry, issued>>

\* The TokenSet handle_login builds of the two results.
login_token_set(l) ==
    LET kasa == unwrap(l.kasa_result)
        tapo == l.tapo_result
    IN  [token              |-> kasa.token,
         refresh_token      |-> kasa.refresh_token,
         username           |-> l.username,
         regional_url       |-> kasa.regional_url,
         term_id            |-> <<"i">>,
         tapo_token         |-> IF tapo = None THEN None ELSE Some(unwrap(tapo).token),
         tapo_refresh_token |-> IF tapo = None THEN None ELSE unwrap(tapo).refresh_token,
         tapo_regional_url  |-> IF tapo = None THEN None ELSE Some(unwrap(tapo).regional_url)]

\* keychain::store_tokens(&tokens)? at the end of handle_login.
StoreSession(p, writes) ==
    /\ loc[p].pc = "store"
    /\ \E n \in writes :
         LET w == store_tokens(store, login_token_set(loc[p]), n)
         IN  /\ store' = w.store
             /\ loc' = [loc EXCEPT ![p] = [@ EXCEPT !.pc = "done", !.result = Some(w.result)]]
    /\ UNCHANGED <<registry, issued>>

\* handle_logout.
Logout(p) ==
    /\ loc[p].pc = "logout"
    /\ store' = clear_tokens(store)
    /\ loc' = [loc EXCEPT ![p] = [@ EXCEPT !.pc = "done", !.result = Some(Ok("unit"))]]
    /\ UNCHANGED <<registry, issued>>

\* What the cloud may answer to the account-status request of ecosystem c.
RegionReplies(c) ==
    { Reply(TRUE, TRUE, 0, Some([appServerUrl |-> Some(Url(c))])),
      Reply(TRUE, TRUE, 0, Some([appServerUrl |-> None])),
      Reply(TRUE, TRUE, 0, None),
      Reply(TRUE, TRUE, -1, Some([appServerUrl |-> Some(Url(c))])),
      Reply(TRUE, FALSE, 0, None),
      Reply(FALSE, FALSE, 0, None) }

LoginPayload(errorCode, errorMsg, mfaType, token, refreshToken) ==
    [errorCode |-> errorCode, errorMsg |-> errorMsg, mfaType |-> mfaType,
     token |-> token, refreshToken |-> refreshToken]

\* Business codes written as JSON strings, with the number each one spells.
CodeStrings ==
    { << <<"-", "2", "0", "6", "7", "7">>, ERR_MFA_REQUIRED >>,
      << <<"-", "2", "0", "6", "0", "1">>, ERR_WRONG_CREDENTIALS >>,
      << <<"-", "2", "0", "6", "7", "5">>, ERR_ACCOUNT_LOCKED >>,
      << <<"-", "1">>, -1 >>,
      << <<"0">>, 0 >> }

\* The values result.errorCode may have: the codes as integers and as
\* strings, a string that is no number, a number beyond i32, another type.
InnerCodes ==
    { JsonInt(n) : n \in {ERR_MFA_REQUIRED, ERR_WRONG_CREDENTIALS, ERR_ACCOUNT_LOCKED, -1, 0} }
    \cup { JsonStr(cs[1]) : cs \in CodeStrings }
    \cup { JsonStr(<<"a">>), JsonStr(<<"9", "9", "9", "9", "9", "9", "9", "9", "9", "9">>),
           JsonOther }

Message == {None, Some(<<"m">>)}

LoginReplies ==
    { Reply(TRUE, TRUE, 0, Some(LoginPayload(None, None, None, t, rt))) :
        t \in {None, Some(<<1>>)}, rt \in {None, Some(<<1>>)} }
    \cup { Reply(TRUE, TRUE, 0, Some(LoginPayload(Some(ec), em, mt, Some(<<1>>), None))) :
             ec \in InnerCodes, em \in Message, mt \in {None, Some(<<"e">>)} }
    \cup { [Reply(TRUE, TRUE, code, res) EXCEPT !.msg = m] :
             code \in {ERR_MFA_REQUIRED, ERR_WRONG_CREDENTIALS, ERR_ACCOUNT_LOCKED, -1},
             m \in Message,
             res \in {None, Some(LoginPayload(None, None, Some(<<"e">>), None, None))} }
    \cup { Reply(TRUE, TRUE, 0, None), Reply(TRUE, FALSE, 0, None), Reply(FALSE, FALSE, 0, None) }

MfaReplies ==
    { Reply(TRUE, TRUE, 0, Some(LoginPayload(None, None, None, t, rt))) :
        t \in {None, Some(<<1>>)}, rt \in {None, Some(<<1>>)} }
    \cup { [Reply(TRUE, TRUE, -1, None) EXCEPT !.msg = m] : m \in Message }
    \cup { Reply(TRUE, FALSE, 0, None), Reply(FALSE, FALSE, 0, None) }

LoginInit ==
    /\ store \in {EmptyStore, FullStore}
    /\ registry = [c \in CloudType |-> << >>]
    /\ issued = [c \in CloudType |-> 1]
    /\ \E cmd \in {"login", "logout"}, username \in {EmptyStr, <<"u">>},
          password \in {EmptyStr, <<"p">>} :
         loc = [p \in Procs |-> IF p = 1 THEN LoginInvocation(cmd, username, password) ELSE Off]

LoginNext ==
    \E p \in Procs :
        \/ DiscoverRegion(p, RegionReplies(loc[p].cloud))
        \/ LoginCall(p, LoginReplies)
        \/ VerifyMfa(p, MfaReplies)
        \/ StoreSession(p, FailingWrite)
        \/ Logout(p)

SpecLogin == LoginInit /\ [][LoginNext]_vars

\* The latest API call of the login invocation l was op.
Called(l, op) == l.cmd = "login" /\ l.call # None /\ unwrap(l.call).op = op

\* C14: regional discovery never fails: whatever the account-status call
\* gives (transport error, non-success HTTP status, non-zero code, success
\* without a URL), get_regional_url returns the configured host and login
\* goes on to the login call.
C14_RegionNeverFails ==
    \A p \in Procs :
        LET l == loc[p]
        IN  Called(l, "get_regional_url") =>
              LET reply == unwrap(l.call).reply
                  ret   == unwrap(l.call).ret
                  found == /\ reply.sent
                           /\ reply.status_ok
                           /\ reply.error_code = 0
                           /\ str_field(reply.result, "appServerUrl") # None
              IN  /\ ret.ok
                  /\ l.pc = "login"
                  /\ ~found => ret.val = cloud_host(unwrap(l.call).cloud)

\* The answered login response carries the business code n: as the outer
\* error_code or, under outer error_code 0, as result.errorCode, an integer
\* or the string that spells n.
Carries(reply, n) ==
    /\ reply.sent
    /\ reply.status_ok
    /\ \/ reply.error_code = n
       \/ /\ reply.error_code = 0
          /\ reply.result # None
          /\ unwrap(reply.result).errorCode # None
          /\ LET v == unwrap(unwrap(reply.result).errorCode)
             IN  \/ v.as_i64 = Some(n)
                 \/ \E cs \in CodeStrings : cs[2] = n /\ v.as_str = Some(cs[1])

\* C15: a login whose response carries the MFA-required code, as the outer
\* error_code or under outer error_code 0 as result.errorCode (an integer or
\* a numeric string), returns MfaRequired with email set to the submitted
\* username, and no session token comes back: the ecosystem has no login
\* result and MFA verification is next.
C15_MfaRequiredWithEmail ==
    \A p \in Procs :
        LET l == loc[p]
        IN  (Called(l, "login") /\ Carries(unwrap(l.call).reply, ERR_MFA_REQUIRED)) =>
              LET ret == unwrap(l.call).ret
              IN  /\ ~ret.ok
                  /\ ret.err.kind = "MfaRequired"
                  /\ ret.err.email = Some(l.username)
                  /\ l.pc = "mfa"
                  /\ IF l.cloud = Kasa THEN l.kasa_result = None ELSE l.tapo_result = None

\* C15's case: outer error_code 0 and the MFA-required code as a string in
\* result.errorCode, next to a token; login asked for MFA.
C15_InnerStringCode ==
    LET l == loc[1]
    IN  /\ Called(l, "login")
        /\ unwrap(l.call).reply.error_code = 0
        /\ unwrap(l.call).reply.result # None
        /\ unwrap(unwrap(l.call).reply.result).errorCode
             = Some(JsonStr(<<"-", "2", "0", "6", "7", "7">>))
        /\ unwrap(unwrap(l.call).reply.result).token # None
        /\ l.pc = "mfa"
        /\ unwrap(l.call).ret.err.email = Some(<<"u">>)

\* The human-readable message next to the code of a login response.
ServerMessage(reply) ==
    IF reply.error_code # 0 THEN reply.msg ELSE str_field(reply.result, "errorMsg")

\* C16: a login failure signalled by an outer or inner code is MfaRequired
\* for the MFA-required code, Auth for the wrong-credentials and
\* account-locked codes and Api for any other non-zero code, and the error
\* carries the message the server sent.
C16_LoginFailureKeepsMessage ==
    \A p \in Procs :
        LET l == loc[p]
        IN  Called(l, "login") =>
              LET reply == unwrap(l.call).reply
                  ret   == unwrap(l.call).ret
              IN  \A n \in {ERR_MFA_REQUIRED, ERR_WRONG_CREDENTIALS, ERR_ACCOUNT_LOCKED, -1} :
                      Carries(reply, n) =>
                          /\ ~ret.ok
                          /\ ret.err.kind =
                                 CASE n = ERR_MFA_REQUIRED -> "MfaRequired"
                                   [] n \in {ERR_WRONG_CREDENTIALS, ERR_ACCOUNT_LOCKED} -> "Auth"
                                   [] OTHER -> "Api"
                          /\ ServerMessage(reply) # None
                                => contains(to_string(ret.err), unwrap(ServerMessage(reply)))

\* C17: a login with an empty username or an empty password fails with
\* InvalidInput, sends no request (neither regional discovery nor login) and
\* leaves the host of the client as it was configured.
C17_InvalidInputBeforeAnyCall ==
    \A p \in Procs :
        LET l == loc[p]
        IN  (l.cmd = "login" /\ (is_empty(l.username) \/ is_empty(l.password))) =>
              /\ l.sent = << >>
              /\ l.call = None
              /\ \A c \in CloudType : l.host[c] = cloud_host(c)
              /\ l.pc \in {"region", "done"}
              /\ l.pc = "done" =>
                    /\ l.login_ret[Kasa] # None
                    /\ Kind(unwrap(l.login_ret[Kasa])) = "InvalidInput"
                    /\ l.result = l.login_ret[Kasa]

\* C17's case: a username with an empty password; login is over with
\* InvalidInput and nothing was sent.
C17_EmptyPasswordRejected ==
    LET l == loc[1]
    IN  /\ l.cmd = "login"
        /\ ~is_empty(l.username)
        /\ is_empty(l.password)
        /\ l.pc = "done"
        /\ Kind(unwrap(l.result)) = "InvalidInput"
        /\ l.sent = << >>

\* C28: after a login whose store_tokens succeeded, get_tokens returns the
\* record that was stored, whatever the store held before; in particular no
\* secondary session survives a login whose secondary login failed.
C28_StoreLoadRoundTrip ==
    \A p \in Procs :
        LET l == loc[p]
        IN  (l.cmd = "login" /\ l.pc = "done" /\ l.result = Some(Ok("unit")))
            => get_tokens(store) = Some(login_token_set(l))

====
